---------------------------- MODULE Spec2Model ----------------------------
(***************************************************************************)
(* A model of the user-story scoring engine of BA_Toolbox                  *)
(* (business-analysis-app/shared/userStoryAgent.js) and of its callers.    *)
(*                                                                         *)
(* JavaScript strings are sequences of one-character strings, so that      *)
(* length, trim, split, toLowerCase, includes and the format regex are     *)
(* computed character by character as the engine computes them.  Texts     *)
(* the engine only emits (feedback, labels) are TLA+ strings.              *)
(***************************************************************************)
EXTENDS Integers, Sequences, FiniteSets, TLC

VARIABLES config,   \* the process-wide CONFIG object
          story,    \* first argument of the latest analyzeUserStory call
          ac,       \* second argument of that call
          result,   \* its outcome: a returned Report or a thrown error
          calls,    \* the call each task of the process is making: its position and local variables
          lookup,   \* the latest getReadinessCategory call made on its own: score and band
          event,    \* the request given to the HTTP handler: method and body
          response, \* what the handler returned for it: status code and body
          app       \* the React form: its state and the submit in progress

vars == <<config, story, ac, result, calls, lookup, event, response, app>>

-----------------------------------------------------------------------------
(* JavaScript values and string primitives                                 *)

\* A JavaScript value: its typeof class and, for a string, its characters.
JsString(s) == [type |-> "string", str |-> s, num |-> 0]
JsNumber(n) == [type |-> "number", str |-> <<>>, num |-> n]
JsUndefined == [type |-> "undefined", str |-> <<>>, num |-> 0]
JsNull == [type |-> "null", str |-> <<>>, num |-> 0]
JsObject == [type |-> "object", str |-> <<>>, num |-> 0]
JsBoolean(b) == [type |-> "boolean", str |-> <<>>, num |-> IF b THEN 1 ELSE 0]

\* ToBoolean: undefined, null, 0, "" and false are falsy; objects and the rest are truthy.
Truthy(v) ==
    CASE v.type = "undefined" -> FALSE
      [] v.type = "null" -> FALSE
      [] v.type = "number" -> v.num # 0
      [] v.type = "boolean" -> v.num # 0
      [] v.type = "string" -> v.str # <<>>
      [] OTHER -> TRUE

\* String.prototype.toLowerCase on the letters of the model's alphabet.
LowerMap ==
    ("A" :> "a") @@ ("B" :> "b") @@ ("C" :> "c") @@ ("D" :> "d") @@ ("E" :> "e") @@
    ("F" :> "f") @@ ("G" :> "g") @@ ("H" :> "h") @@ ("I" :> "i") @@ ("J" :> "j") @@
    ("K" :> "k") @@ ("L" :> "l") @@ ("M" :> "m") @@ ("N" :> "n") @@ ("O" :> "o") @@
    ("P" :> "p") @@ ("Q" :> "q") @@ ("R" :> "r") @@ ("S" :> "s") @@ ("T" :> "t") @@
    ("U" :> "u") @@ ("V" :> "v") @@ ("W" :> "w") @@ ("X" :> "x") @@ ("Y" :> "y") @@
    ("Z" :> "z")

UpperLetters == DOMAIN LowerMap

LowerChar(c) == IF c \in UpperLetters THEN LowerMap[c] ELSE c

toLowerCase(s) == [i \in 1..Len(s) |-> LowerChar(s[i])]

\* Characters String.prototype.trim strips (those of the model's alphabet).
WhiteSpace == {" ", "\t", "\n", "\r"}

\* Characters the regex dot does not match.
LineTerminators == {"\n", "\r"}

\* String.prototype.includes: kw occurs in s as a contiguous substring.
includes(s, kw) ==
    \E i \in 1..(Len(s) - Len(kw) + 1) : \A j \in 1..Len(kw) : s[i + j - 1] = kw[j]

\* String.prototype.trim: drop leading and trailing white space.
trim(s) ==
    IF \A i \in 1..Len(s) : s[i] \in WhiteSpace THEN <<>>
    ELSE LET lo == CHOOSE i \in 1..Len(s) :
                      s[i] \notin WhiteSpace /\ \A k \in 1..(i - 1) : s[k] \in WhiteSpace
             hi == CHOOSE i \in 1..Len(s) :
                      s[i] \notin WhiteSpace /\ \A k \in (i + 1)..Len(s) : s[k] \in WhiteSpace
         IN  SubSeq(s, lo, hi)

\* String.prototype.split('\n'): the pieces between newlines, empty ones included.
split(s) ==
    LET nl == {i \in 1..Len(s) : s[i] = "\n"}
        cut(k) == IF k = 0 THEN 0
                  ELSE IF k > Cardinality(nl) THEN Len(s) + 1
                  ELSE CHOOSE p \in nl : Cardinality({q \in nl : q < p}) = k - 1
    IN  [k \in 1..(Cardinality(nl) + 1) |-> SubSeq(s, cut(k - 1) + 1, cut(k) - 1)]

\* Template-literal interpolation of a string value: its characters as text.
RECURSIVE Text(_)
Text(s) ==
    IF s = <<>> THEN ""
    ELSE IF Len(s) = 1 THEN s[1]
    ELSE LET half == Len(s) \div 2
         IN  Text(SubSeq(s, 1, half)) \o Text(SubSeq(s, half + 1, Len(s)))

\* Array.prototype.join on a list of texts.
RECURSIVE join(_, _)
join(items, sep) ==
    IF items = <<>> THEN ""
    ELSE IF Len(items) = 1 THEN items[1]
    ELSE items[1] \o sep \o join(Tail(items), sep)

-----------------------------------------------------------------------------
(* CONFIG                                                                  *)

\* /As an? (.*), I want (.*), so that (.*)/i as its literal parts, lower-cased
\* because the i flag compares letters without case.
STORY_FORMAT_REGEX ==
    [lead |-> <<"a","s"," ","a">>,
     optional |-> <<"n">>,
     space |-> <<" ">>,
     want |-> <<","," ","i"," ","w","a","n","t"," ">>,
     soThat |-> <<","," ","s","o"," ","t","h","a","t"," ">>]

\* Labels are written without their leading emoji and with "-" for the dash.
CONFIG ==
    [STORY_FORMAT_REGEX |-> STORY_FORMAT_REGEX,
     THRESHOLDS |->
        [SHORT_STORY_LENGTH |-> 25,
         LONG_STORY_LENGTH |-> 200,
         MAX_ACCEPTANCE_CRITERIA |-> 7],
     KEYWORDS |->
        [AMBIGUOUS |-> <<<<"s","h","o","u","l","d">>, <<"c","o","u","l","d">>, <<"m","i","g","h","t">>>>,
         DEPENDENCIES |-> <<<<"d","e","p","e","n","d","e","n","t"," ","o","n">>, <<"a","f","t","e","r">>, <<"f","o","l","l","o","w","i","n","g">>, <<"o","n","c","e">>>>,
         TECHNICAL |-> <<<<"d","a","t","a","b","a","s","e"," ","s","c","h","e","m","a">>,
                         <<"a","p","i"," ","e","n","d","p","o","i","n","t">>,
                         <<"r","e","a","c","t"," ","c","o","m","p","o","n","e","n","t">>,
                         <<"a","l","g","o","r","i","t","h","m">>,
                         <<"s","q","l"," ","q","u","e","r","y">>>>,
         TESTABLE_AC |-> <<<<"v","e","r","i","f","y"," ","t","h","a","t">>,
                           <<"e","n","s","u","r","e"," ","t","h","a","t">>,
                           <<"g","i","v","e","n">>, <<"w","h","e","n">>, <<"t","h","e","n">>,
                           <<"c","o","n","f","i","r","m"," ","t","h","a","t">>>>],
     SCORING |->
        [FORMAT_SUCCESS |-> 10,
         FORMAT_FAIL |-> 2,
         CLARITY_BASE |-> 10,
         CLARITY_BONUS_CONCISE |-> 5,
         CLARITY_BONUS_SPECIFIC |-> 5,
         AC_PROVIDED |-> 15,
         AC_EMPTY |-> 5,
         AC_MISSING |-> 0,
         AC_NON_TESTABLE_DEDUCTION |-> 5,
         INVEST_DEFAULT_HIGH |-> 8,
         INVEST_DEFAULT_MEDIUM |-> 6,
         INVEST_DEFAULT_LOW |-> 3],
     READINESS_CATEGORIES |->
        <<[score |-> 90, label |-> "Excellent - Ready for Development",
           summary |-> "Story is well-formed, clear, and meets all INVEST criteria. Minimal or no changes needed."],
          [score |-> 71, label |-> "At Standard Expected - Minor Refinement Needed",
           summary |-> "Mostly ready with small gaps. Can be addressed quickly."],
          [score |-> 50, label |-> "Requires Improvement - Needs Refinement",
           summary |-> "Multiple issues present. Not ready for development without rework."],
          [score |-> 0, label |-> "Not Ready - Fundamentally Incomplete",
           summary |-> "Lacks essential components. Requires major revision or clarification."]>>]

\* Array.prototype.some over a keyword list: some keyword occurs in the lower-cased text.
someIncluded(keywords, s) ==
    \E k \in 1..Len(keywords) : includes(toLowerCase(s), keywords[k])

-----------------------------------------------------------------------------
(* Helper functions                                                        *)

\* What a function call yields: a returned value or a thrown error, kept by
\* its message.
Returned(v) == [threw |-> FALSE, value |-> v]
Thrown(msg) == [threw |-> TRUE, error |-> msg]

Max(S) == CHOOSE x \in S : \A y \in S : x >= y
Min(S) == CHOOSE x \in S : \A y \in S : x <= y

\* firstBand taking the last band whose threshold the score meets.
lastBand(cats, hits) ==
    IF hits = {} THEN [found |-> FALSE]
    ELSE [found |-> TRUE, label |-> cats[Max(hits)].label, summary |-> cats[Max(hits)].summary]

\* Array.prototype.find over the bands: the first whose threshold the score
\* meets, or undefined when there is none.
firstBand(cats, hits) ==
    IF hits = {} THEN [found |-> FALSE]
    ELSE [found |-> TRUE, label |-> cats[Min(hits)].label, summary |-> cats[Min(hits)].summary]

\* getReadinessCategory comparing with > instead of >=.
getReadinessCategoryStrict(score) ==
    firstBand(config.READINESS_CATEGORIES,
              {k \in 1..Len(config.READINESS_CATEGORIES) :
                  score > config.READINESS_CATEGORIES[k].score})

getReadinessCategory(score) ==
    firstBand(config.READINESS_CATEGORIES,
              {k \in 1..Len(config.READINESS_CATEGORIES) :
                  score >= config.READINESS_CATEGORIES[k].score})

\* A filter that drops only the empty lines, keeping the whitespace-only ones.
RECURSIVE nonEmpty(_)
nonEmpty(lines) ==
    IF lines = <<>> THEN <<>>
    ELSE IF Head(lines) # <<>> THEN <<Head(lines)>> \o nonEmpty(Tail(lines))
    ELSE nonEmpty(Tail(lines))

\* Array.prototype.filter(c => c.trim() !== ''): the non-blank lines, in order.
RECURSIVE nonBlank(_)
nonBlank(lines) ==
    IF lines = <<>> THEN <<>>
    ELSE IF trim(Head(lines)) # <<>> THEN <<Head(lines)>> \o nonBlank(Tail(lines))
    ELSE nonBlank(Tail(lines))

\* Whether one criterion line holds a testable keyword.
isTestable(c) == someIncluded(config.KEYWORDS.TESTABLE_AC, c)

\* The loop overwriting the flag on every line, so that the last line decides.
tallyCriteriaLastLineDecides(criteria) ==
    [criteria |-> criteria,
     testableKeywordsFound |-> Len(criteria) > 0 /\ isTestable(criteria[Len(criteria)]),
     nonTestableCount |-> Cardinality({k \in 1..Len(criteria) : ~isTestable(criteria[k])})]

\* The forEach loop over the criteria: count the lines with no testable
\* keyword, and note whether any line has one.
tallyCriteria(criteria) ==
    [criteria |-> criteria,
     testableKeywordsFound |-> \E k \in 1..Len(criteria) : isTestable(criteria[k]),
     nonTestableCount |-> Cardinality({k \in 1..Len(criteria) : ~isTestable(criteria[k])})]

\* The AC analysis.  A falsy argument short-circuits; a truthy argument that is
\* not a string has no trim method, and calling it throws a TypeError.
analyzeAcceptanceCriteria(acceptanceCriteriaText) ==
    IF ~Truthy(acceptanceCriteriaText)
    THEN Returned([criteria |-> <<>>, testableKeywordsFound |-> FALSE, nonTestableCount |-> 0])
    ELSE IF acceptanceCriteriaText.type # "string"
    THEN Thrown("acceptanceCriteriaText.trim is not a function")
    ELSE IF trim(acceptanceCriteriaText.str) = <<>>
    THEN Returned([criteria |-> <<>>, testableKeywordsFound |-> FALSE, nonTestableCount |-> 0])
    ELSE Returned(tallyCriteria(nonBlank(split(acceptanceCriteriaText.str))))

-----------------------------------------------------------------------------
(* The format regex                                                        *)

\* litAt comparing the letters with their case.
litAtCaseSensitive(s, p, lit) ==
    /\ p + Len(lit) - 1 <= Len(s)
    /\ \A j \in 1..Len(lit) : s[p + j - 1] = lit[j]

\* A literal of the regex matches at position p, letters compared without case.
litAt(s, p, lit) ==
    /\ p + Len(lit) - 1 <= Len(s)
    /\ \A j \in 1..Len(lit) : LowerChar(s[p + j - 1]) = lit[j]

\* (.*) can cover s[a..b]: no line terminator in it.
dots(s, a, b) == \A k \in a..b : s[k] \notin LineTerminators

\* Positions where ", so that " can follow a goal that starts at g2.
soThatAt(s, g2) ==
    {p \in g2..Len(s) : litAt(s, p, config.STORY_FORMAT_REGEX.soThat) /\ dots(s, g2, p - 1)}

\* Positions where ", I want " can follow a persona that starts at g1, with the
\* rest of the pattern matching after it.
wantAt(s, g1) ==
    {p \in g1..Len(s) :
        /\ litAt(s, p, config.STORY_FORMAT_REGEX.want)
        /\ dots(s, g1, p - 1)
        /\ soThatAt(s, p + Len(config.STORY_FORMAT_REGEX.want)) # {}}

\* Where the persona starts when the pattern matches from position i (0 when
\* it does not): after "As a", the optional n is tried first, then the
\* pattern without it.
personaAfter(s, a, n, sp) ==
    IF litAt(s, a, n \o sp) /\ wantAt(s, a + Len(n \o sp)) # {} THEN a + Len(n \o sp)
    ELSE IF litAt(s, a, sp) /\ wantAt(s, a + Len(sp)) # {} THEN a + Len(sp)
    ELSE 0

personaStart(s, i) ==
    IF litAt(s, i, config.STORY_FORMAT_REGEX.lead)
    THEN personaAfter(s, i + Len(config.STORY_FORMAT_REGEX.lead),
                      config.STORY_FORMAT_REGEX.optional, config.STORY_FORMAT_REGEX.space)
    ELSE 0

\* Where the last (.*) ends: before the first line terminator from g3 on.
lineEnd(s, stops) == IF stops = {} THEN Len(s) ELSE Min(stops) - 1

\* The three captures, given where ", I want " (p1) and ", so that " (p2) match.
captures(s, g1, p1, p2) ==
    [matched |-> TRUE,
     groups |->
        <<SubSeq(s, g1, p1 - 1),
          SubSeq(s, p1 + Len(config.STORY_FORMAT_REGEX.want), p2 - 1),
          SubSeq(s, p2 + Len(config.STORY_FORMAT_REGEX.soThat),
                 lineEnd(s, {e \in (p2 + Len(config.STORY_FORMAT_REGEX.soThat))..Len(s) :
                                s[e] \in LineTerminators}))>>]

\* Each (.*) takes as much as the rest of the pattern allows: the last
\* ", I want " that leaves a ", so that ", then the last ", so that ".
matchGoal(s, g1, p1) ==
    captures(s, g1, p1, Max(soThatAt(s, p1 + Len(config.STORY_FORMAT_REGEX.want))))

matchPersona(s, g1) == matchGoal(s, g1, Max(wantAt(s, g1)))

matchFrom(s, starts) ==
    IF starts = {} THEN [matched |-> FALSE, groups |-> <<>>]
    ELSE matchPersona(s, personaStart(s, Min(starts)))

\* String.prototype.match(CONFIG.STORY_FORMAT_REGEX): the leftmost match.
match(s) == matchFrom(s, {i \in 1..Len(s) : personaStart(s, i) # 0})

-----------------------------------------------------------------------------
(* analyzeClarityAndRequirement                                            *)

formatCheck(formatMatch) ==
    [score |-> IF formatMatch.matched THEN config.SCORING.FORMAT_SUCCESS
               ELSE config.SCORING.FORMAT_FAIL,
     feedback |->
        IF formatMatch.matched
        THEN "Story follows the standard 'As a [persona], I want [goal], so that [value]' format."
        ELSE "Story does not strictly follow the 'As a [persona], I want [goal], so that [value]' format. This helps ensure role, action, and benefit are clear."]

\* capClarity without the cap.
capClarityMissing(clarityScore) == clarityScore

\* Math.min(15, clarityScore)
capClarity(clarityScore) == IF clarityScore < 15 THEN clarityScore ELSE 15

clarityFeedback(clarityFeedbackItems) ==
    IF Len(clarityFeedbackItems) > 0 THEN join(clarityFeedbackItems, " ")
    ELSE "Language appears reasonably clear."

\* tooShort counting a story of exactly the threshold length as short.
tooShortAtThreshold(s) == Len(s) <= config.THRESHOLDS.SHORT_STORY_LENGTH

tooShort(s) == Len(s) < config.THRESHOLDS.SHORT_STORY_LENGTH

hasAmbiguousTerms(s) == someIncluded(config.KEYWORDS.AMBIGUOUS, s)

\* clarityAmbiguity taking 5 points off the capped score for an ambiguous term.
clarityAmbiguityPenalised(s) ==
    [score |->
        capClarity(config.SCORING.CLARITY_BASE
                   + (IF tooShort(s) THEN 0 ELSE config.SCORING.CLARITY_BONUS_CONCISE)
                   + config.SCORING.CLARITY_BONUS_SPECIFIC)
        - (IF hasAmbiguousTerms(s) THEN config.SCORING.CLARITY_BONUS_SPECIFIC ELSE 0),
     feedback |->
        clarityFeedback(
            (IF tooShort(s)
             THEN <<"Story seems very short, ensure it's sufficiently detailed.">> ELSE <<>>)
            \o (IF hasAmbiguousTerms(s)
                THEN <<"Avoid ambiguous terms like 'should', 'could', or 'might'. Be specific.">>
                ELSE <<>>))]

clarityAmbiguity(s) ==
    [score |->
        capClarity(config.SCORING.CLARITY_BASE
                   + (IF tooShort(s) THEN 0 ELSE config.SCORING.CLARITY_BONUS_CONCISE)
                   + (IF hasAmbiguousTerms(s) THEN 0 ELSE config.SCORING.CLARITY_BONUS_SPECIFIC)),
     feedback |->
        clarityFeedback(
            (IF tooShort(s)
             THEN <<"Story seems very short, ensure it's sufficiently detailed.">> ELSE <<>>)
            \o (IF hasAmbiguousTerms(s)
                THEN <<"Avoid ambiguous terms like 'should', 'could', or 'might'. Be specific.">>
                ELSE <<>>))]

\* mostlyNonTestable with >= for >: exactly half already counts.
mostlyNonTestableOrHalf(nonTestableCount, length) == 2 * nonTestableCount >= length

\* nonTestableCount > criteria.length / 2, the division being exact.
mostlyNonTestable(nonTestableCount, length) == 2 * nonTestableCount > length

\* acceptanceCriteriaCheck scoring a text with no criteria line as missing.
acceptanceCriteriaCheckBlankAsMissing(acceptanceCriteriaText, acAnalysis) ==
    IF Len(acAnalysis.criteria) = 0
    THEN [score |-> config.SCORING.AC_MISSING,
          feedback |-> "Acceptance criteria are missing. Clear, testable ACs are essential. Consider using the 'Given/When/Then' format."]
    ELSE IF mostlyNonTestable(acAnalysis.nonTestableCount, Len(acAnalysis.criteria))
    THEN [score |-> config.SCORING.AC_PROVIDED - config.SCORING.AC_NON_TESTABLE_DEDUCTION,
          feedback |-> "Acceptance criteria provided."]
    ELSE [score |-> config.SCORING.AC_PROVIDED,
          feedback |-> "Acceptance criteria provided."]

\* The acceptance-criteria sub-score, from the argument and its analysis.
acceptanceCriteriaCheck(acceptanceCriteriaText, acAnalysis) ==
    IF ~Truthy(acceptanceCriteriaText)
    THEN [score |-> config.SCORING.AC_MISSING,
          feedback |-> "Acceptance criteria are missing. Clear, testable ACs are essential. Consider using the 'Given/When/Then' format."]
    ELSE IF Len(acAnalysis.criteria) > 0
    THEN IF mostlyNonTestable(acAnalysis.nonTestableCount, Len(acAnalysis.criteria))
         THEN [score |-> config.SCORING.AC_PROVIDED - config.SCORING.AC_NON_TESTABLE_DEDUCTION,
               feedback |->
                  "Acceptance criteria provided (" \o ToString(Len(acAnalysis.criteria))
                  \o " criteria found). Ensure they are specific and testable."
                  \o " Some ACs may not be easily testable; consider phrasing with keywords like 'Verify that...' or using Gherkin (Given/When/Then)."]
         ELSE [score |-> config.SCORING.AC_PROVIDED,
               feedback |->
                  "Acceptance criteria provided (" \o ToString(Len(acAnalysis.criteria))
                  \o " criteria found). Ensure they are specific and testable."]
    ELSE [score |-> config.SCORING.AC_EMPTY,
          feedback |-> "Acceptance criteria section is present but empty. Please define clear, testable acceptance criteria."]

\* clarityResult leaving the format score out of the total.
clarityResultDroppingFormat(format, clarity, criteria) ==
    [total |-> clarity.score + criteria.score,
     formatCheck |-> format,
     clarityAmbiguity |-> clarity,
     acceptanceCriteria |-> criteria]

clarityResult(format, clarity, criteria) ==
    [total |-> format.score + clarity.score + criteria.score,
     formatCheck |-> format,
     clarityAmbiguity |-> clarity,
     acceptanceCriteria |-> criteria]

clarityWith(s, acceptanceCriteriaText, acCall) ==
    IF acCall.threw THEN acCall
    ELSE Returned(clarityResult(formatCheck(match(s)),
                                clarityAmbiguity(s),
                                acceptanceCriteriaCheck(acceptanceCriteriaText, acCall.value)))

\* s is the text of a non-blank story; acceptanceCriteriaText a JavaScript value.
analyzeClarityAndRequirement(s, acceptanceCriteriaText) ==
    clarityWith(s, acceptanceCriteriaText, analyzeAcceptanceCriteria(acceptanceCriteriaText))

-----------------------------------------------------------------------------
(* analyzeINVEST                                                           *)

\* hasDependencyKeywords counting a keyword only where it stands as a word of its own.
hasDependencyKeywordsAsWords(s) ==
    \E k \in 1..Len(config.KEYWORDS.DEPENDENCIES), p \in 1..Len(s) :
        /\ litAt(s, p, config.KEYWORDS.DEPENDENCIES[k])
        /\ p = 1 \/ LowerChar(s[p - 1]) \notin {LowerMap[u] : u \in UpperLetters}
        /\ \/ p + Len(config.KEYWORDS.DEPENDENCIES[k]) > Len(s)
           \/ LowerChar(s[p + Len(config.KEYWORDS.DEPENDENCIES[k])])
                \notin {LowerMap[u] : u \in UpperLetters}

hasDependencyKeywords(s) == someIncluded(config.KEYWORDS.DEPENDENCIES, s)

\* independent awarding the full 10 points to a story without dependency keywords.
independentFull(s) ==
    IF hasDependencyKeywords(s)
    THEN [score |-> config.SCORING.INVEST_DEFAULT_LOW,
          justification |-> "Story may have dependencies based on keywords. Clarify if it can be worked on without external blockers."]
    ELSE [score |-> 10,
          justification |-> "Assumed to be developable independently. Review for hidden dependencies."]

independent(s) ==
    IF hasDependencyKeywords(s)
    THEN [score |-> config.SCORING.INVEST_DEFAULT_LOW,
          justification |-> "Story may have dependencies based on keywords. Clarify if it can be worked on without external blockers."]
    ELSE [score |-> config.SCORING.INVEST_DEFAULT_MEDIUM,
          justification |-> "Assumed to be developable independently. Review for hidden dependencies."]

hasTechnicalTerms(s) == someIncluded(config.KEYWORDS.TECHNICAL, s)

negotiable(s) ==
    IF hasTechnicalTerms(s)
    THEN [score |-> config.SCORING.INVEST_DEFAULT_LOW,
          justification |-> "Story might be too prescriptive with technical details. Focus on user needs, not implementation."]
    ELSE [score |-> config.SCORING.INVEST_DEFAULT_HIGH,
          justification |-> "Story seems to describe 'what' not 'how', allowing for implementation discussion."]

\* formatMatch && formatMatch[3] && formatMatch[3].trim().length > 5
\* hasClearValue accepting a value clause of 5 characters.
hasClearValueFromFive(formatMatch) ==
    /\ formatMatch.matched
    /\ formatMatch.groups[3] # <<>>
    /\ Len(trim(formatMatch.groups[3])) >= 5

hasClearValue(formatMatch) ==
    /\ formatMatch.matched
    /\ formatMatch.groups[3] # <<>>
    /\ Len(trim(formatMatch.groups[3])) > 5

valuable(formatMatch) ==
    IF hasClearValue(formatMatch)
    THEN [score |-> 10,
          justification |-> "Value proposition '" \o Text(formatMatch.groups[3]) \o "' seems clear."]
    ELSE [score |-> config.SCORING.INVEST_DEFAULT_LOW,
          justification |-> "The 'so that [value]' part of the story is missing or unclear. State the benefit to the user or business."]

\* isEstimable accepting a story of exactly the short-story length.
isEstimableFromThreshold(s, criteria) ==
    Len(criteria) > 0 /\ Len(s) >= config.THRESHOLDS.SHORT_STORY_LENGTH

isEstimable(s, criteria) ==
    Len(criteria) > 0 /\ Len(s) > config.THRESHOLDS.SHORT_STORY_LENGTH

estimable(s, criteria) ==
    IF isEstimable(s, criteria)
    THEN [score |-> config.SCORING.INVEST_DEFAULT_HIGH,
          justification |-> "Story and ACs provide a solid basis for estimation."]
    ELSE [score |-> config.SCORING.INVEST_DEFAULT_MEDIUM,
          justification |-> "Story or ACs may be too vague or missing, making estimation difficult. Please provide more detail."]

\* isLarge counting a story or a list that just reaches its threshold.
isLargeFromThreshold(s, criteria) ==
    \/ Len(s) >= config.THRESHOLDS.LONG_STORY_LENGTH
    \/ Len(criteria) >= config.THRESHOLDS.MAX_ACCEPTANCE_CRITERIA

isLarge(s, criteria) ==
    \/ Len(s) > config.THRESHOLDS.LONG_STORY_LENGTH
    \/ Len(criteria) > config.THRESHOLDS.MAX_ACCEPTANCE_CRITERIA

small(s, criteria) ==
    IF isLarge(s, criteria)
    THEN [score |-> config.SCORING.INVEST_DEFAULT_LOW,
          justification |-> "Story or number of ACs seems large. Consider if it can be broken down into smaller, valuable pieces."]
    ELSE [score |-> config.SCORING.INVEST_DEFAULT_HIGH,
          justification |-> "Story appears to be a reasonable size, likely completable within a single sprint."]

\* testable appending the count of non-testable criteria even when it is 0.
testableAlwaysCounting(acAnalysis) ==
    IF Len(acAnalysis.criteria) > 0
    THEN [score |-> IF acAnalysis.testableKeywordsFound THEN config.SCORING.INVEST_DEFAULT_HIGH
                    ELSE config.SCORING.INVEST_DEFAULT_MEDIUM,
          justification |->
            "Acceptance criteria provided. Ensure they are unambiguous and allow for clear pass/fail conditions."
            \o " " \o ToString(acAnalysis.nonTestableCount)
            \o " AC(s) may benefit from clearer testable language (e.g., using 'Verify that...')."]
    ELSE [score |-> config.SCORING.INVEST_DEFAULT_LOW,
          justification |-> "Testability cannot be assessed without clear acceptance criteria."]

testable(acAnalysis) ==
    IF Len(acAnalysis.criteria) > 0
    THEN [score |-> IF acAnalysis.testableKeywordsFound THEN config.SCORING.INVEST_DEFAULT_HIGH
                    ELSE config.SCORING.INVEST_DEFAULT_MEDIUM,
          justification |->
            "Acceptance criteria provided. Ensure they are unambiguous and allow for clear pass/fail conditions."
            \o (IF acAnalysis.nonTestableCount > 0
                THEN " " \o ToString(acAnalysis.nonTestableCount)
                     \o " AC(s) may benefit from clearer testable language (e.g., using 'Verify that...')."
                ELSE "")]
    ELSE [score |-> config.SCORING.INVEST_DEFAULT_LOW,
          justification |-> "Testability cannot be assessed without clear acceptance criteria."]

\* investResult with the testable score left out of the total.
investResultDroppingTestable(ind, neg, val, est, sml, tst) ==
    [total |-> ind.score + neg.score + val.score + est.score + sml.score,
     independent |-> ind,
     negotiable |-> neg,
     valuable |-> val,
     estimable |-> est,
     small |-> sml,
     testable |-> tst]

investResult(ind, neg, val, est, sml, tst) ==
    [total |-> ind.score + neg.score + val.score + est.score + sml.score + tst.score,
     independent |-> ind,
     negotiable |-> neg,
     valuable |-> val,
     estimable |-> est,
     small |-> sml,
     testable |-> tst]

investWith(s, acCall) ==
    IF acCall.threw THEN acCall
    ELSE Returned(investResult(independent(s),
                               negotiable(s),
                               valuable(match(s)),
                               estimable(s, acCall.value.criteria),
                               small(s, acCall.value.criteria),
                               testable(acCall.value)))

analyzeINVEST(s, acceptanceCriteriaText) ==
    investWith(s, analyzeAcceptanceCriteria(acceptanceCriteriaText))

-----------------------------------------------------------------------------
(* Reporting and recommendation generation                                 *)

\* The lines pushed by the rules that fire, in the order of the rules.
\* pushed filling the list from the last rule to the first.
pushedBackwards(fires, lines) ==
    LET kept == {k \in 1..Len(lines) : fires[k]}
        nth(i) == CHOOSE k \in kept : Cardinality({m \in kept : m > k}) = i - 1
    IN  [i \in 1..Cardinality(kept) |-> lines[nth(i)]]

pushed(fires, lines) ==
    LET kept == {k \in 1..Len(lines) : fires[k]}
        nth(i) == CHOOSE k \in kept : Cardinality({m \in kept : m < k}) = i - 1
    IN  [i \in 1..Cardinality(kept) |-> lines[nth(i)]]

suggested(improvements) ==
    IF Len(improvements) > 0 THEN join(improvements, "\n")
    ELSE "Story is in good shape. No major improvements suggested."

\* decomposition filled when the Testable score, not the Small score, is low.
decompositionOnTestability(investAnalysis) ==
    IF investAnalysis.testable.score < config.SCORING.INVEST_DEFAULT_HIGH
    THEN <<"If the story is too large, consider splitting it by acceptance criteria, or by sub-steps in the user's workflow. Each smaller story should still be valuable and testable.">>
    ELSE <<>>

\* The decomposition list: one suggestion, pushed when the Small score is low.
decomposition(investAnalysis) ==
    IF investAnalysis.small.score < config.SCORING.INVEST_DEFAULT_HIGH
    THEN <<"If the story is too large, consider splitting it by acceptance criteria, or by sub-steps in the user's workflow. Each smaller story should still be valuable and testable.">>
    ELSE <<>>

generateQueriesAndRecommendations(s, clarityAnalysis, investAnalysis) ==
    LET format == clarityAnalysis.formatCheck.score < config.SCORING.FORMAT_SUCCESS
        acs == clarityAnalysis.acceptanceCriteria.score < config.SCORING.AC_PROVIDED
        value == investAnalysis.valuable.score < 10
        size == investAnalysis.small.score < config.SCORING.INVEST_DEFAULT_HIGH
        testability == investAnalysis.testable.score < config.SCORING.INVEST_DEFAULT_HIGH
        independence == investAnalysis.independent.score < config.SCORING.INVEST_DEFAULT_MEDIUM
    IN  [queries |->
            pushed(<<acs, value, size, testability, independence>>,
                   <<"Could you provide or refine the acceptance criteria to be more specific and testable?",
                     "What is the specific value or benefit this story delivers?",
                     "Is this story small enough for one sprint? If not, how can it be split?",
                     "Are the success conditions clear and testable? How would you verify this story is done?",
                     "Are there any hidden dependencies? Can this be developed independently?">>),
         recommendations |->
            [suggestedImprovements |->
                suggested(pushed(
                    <<format, acs, value, size, testability, independence>>,
                    <<"Rephrase story to fit the standard format: \"As a [persona], I want [goal], so that [value]\".",
                      "Refine ACs: " \o clarityAnalysis.acceptanceCriteria.feedback,
                      "Clarify value: " \o investAnalysis.valuable.justification,
                      "Consider story size: " \o investAnalysis.small.justification,
                      "Improve testability: " \o investAnalysis.testable.justification,
                      "Clarify independence: " \o investAnalysis.independent.justification>>)),
             storyDecomposition |-> decomposition(investAnalysis)]]

\* Reading .label of an undefined category throws.
emptyReportWith(categoryInfo) ==
    IF ~categoryInfo.found
    THEN Thrown("Cannot read properties of undefined (reading 'label')")
    ELSE Returned(
           [overallReadinessScore |->
               [readinessRating |-> 0,
                readinessCategory |-> categoryInfo.label,
                summary |-> "Story is empty or missing. Please provide a user story.",
                scoreBreakdown |-> [clarityRequirementAnalysis |-> 0, investCriteriaAssessment |-> 0]],
            clarityAndRequirementAnalysis |->
               [formatCheck |-> [score |-> 0, feedback |-> "No story provided."],
                clarityAmbiguity |-> [score |-> 0, feedback |-> "No story provided."],
                acceptanceCriteria |-> [score |-> 0, feedback |-> "No story provided."]],
            investCriteriaAssessment |->
               [independent |-> [score |-> 0, justification |-> "No story provided."],
                negotiable |-> [score |-> 0, justification |-> "No story provided."],
                valuable |-> [score |-> 0, justification |-> "No story provided."],
                estimable |-> [score |-> 0, justification |-> "No story provided."],
                small |-> [score |-> 0, justification |-> "No story provided."],
                testable |-> [score |-> 0, justification |-> "No story provided."]],
            outstandingQueriesAndConflicts |-> <<"What is the user story you would like to analyze?">>,
            actionableRecommendations |->
               [suggestedImprovements |-> "Please provide the user story text.",
                storyDecomposition |-> <<>>]])

generateEmptyReport == emptyReportWith(getReadinessCategory(0))

\* roundPercent with the division done in integers before the scaling.
roundPercentTruncating(actualScore, totalPossibleScore) ==
    (actualScore \div totalPossibleScore) * 100

\* Math.round((actualScore / totalPossibleScore) * 100): the nearest integer, halves up.
roundPercent(actualScore, totalPossibleScore) ==
    (2 * 100 * actualScore + totalPossibleScore) \div (2 * totalPossibleScore)

\* storyMissing without the trim: a blank story passes the guard.
storyMissingUntrimmed(storyArg) ==
    \/ ~Truthy(storyArg)
    \/ storyArg.type # "string"

\* The story guard of analyzeUserStory: absent, not a string, empty or blank.
storyMissing(storyArg) ==
    \/ ~Truthy(storyArg)
    \/ storyArg.type # "string"
    \/ trim(storyArg.str) = <<>>

\* The default parameter value: "" stands in for undefined only.
\* acOrDefault with a blank, not the empty string, as the default.
acOrDefaultBlank(acArg) == IF acArg.type = "undefined" THEN JsString(<<" ">>) ELSE acArg

acOrDefault(acArg) == IF acArg.type = "undefined" THEN JsString(<<>>) ELSE acArg

\* The Report of the scoring path, assembled from the two analyses.
scoredReport(clarityAnalysis, investAnalysis, percentage, categoryInfo, generated) ==
    [overallReadinessScore |->
        [readinessRating |-> percentage,
         readinessCategory |-> categoryInfo.label,
         summary |-> categoryInfo.summary,
         scoreBreakdown |->
            [clarityRequirementAnalysis |-> clarityAnalysis.total,
             investCriteriaAssessment |-> investAnalysis.total]],
     clarityAndRequirementAnalysis |->
        [total |-> clarityAnalysis.total,
         formatCheck |-> clarityAnalysis.formatCheck,
         clarityAmbiguity |-> clarityAnalysis.clarityAmbiguity,
         acceptanceCriteria |-> clarityAnalysis.acceptanceCriteria,
         totalScore |-> clarityAnalysis.total],
     investCriteriaAssessment |->
        [total |-> investAnalysis.total,
         independent |-> investAnalysis.independent,
         negotiable |-> investAnalysis.negotiable,
         valuable |-> investAnalysis.valuable,
         estimable |-> investAnalysis.estimable,
         small |-> investAnalysis.small,
         testable |-> investAnalysis.testable,
         totalScore |-> investAnalysis.total],
     outstandingQueriesAndConflicts |-> generated.queries,
     actionableRecommendations |-> generated.recommendations]

\* Reading .label of an undefined category throws.
categorised(s, clarityAnalysis, investAnalysis, percentage, categoryInfo) ==
    IF ~categoryInfo.found
    THEN Thrown("Cannot read properties of undefined (reading 'label')")
    ELSE Returned(scoredReport(clarityAnalysis, investAnalysis, percentage, categoryInfo,
                               generateQueriesAndRecommendations(s, clarityAnalysis, investAnalysis)))

rated(s, clarityAnalysis, investAnalysis, percentage) ==
    categorised(s, clarityAnalysis, investAnalysis, percentage, getReadinessCategory(percentage))

\* totalPossibleScore = 40 + 60
scored(s, clarityCall, investCall) ==
    IF clarityCall.threw THEN clarityCall
    ELSE IF investCall.threw THEN investCall
    ELSE rated(s, clarityCall.value, investCall.value,
               roundPercent(clarityCall.value.total + investCall.value.total, 40 + 60))

\* The Report of the empty-input path: the error text spread over the empty report.
emptyResult(emptyCall) ==
    IF emptyCall.threw THEN emptyCall
    ELSE Returned(
           [error |-> "Story is empty or missing. Please provide a user story to analyze.",
            overallReadinessScore |-> emptyCall.value.overallReadinessScore,
            clarityAndRequirementAnalysis |-> emptyCall.value.clarityAndRequirementAnalysis,
            investCriteriaAssessment |-> emptyCall.value.investCriteriaAssessment,
            outstandingQueriesAndConflicts |-> emptyCall.value.outstandingQueriesAndConflicts,
            actionableRecommendations |-> emptyCall.value.actionableRecommendations])

analyzeUserStory(storyArg, acArg) ==
    IF storyMissing(storyArg) THEN emptyResult(generateEmptyReport)
    ELSE scored(storyArg.str,
                analyzeClarityAndRequirement(storyArg.str, acOrDefault(acArg)),
                analyzeINVEST(storyArg.str, acOrDefault(acArg)))

-----------------------------------------------------------------------------
(* Inputs                                                                  *)

\* How far around each length threshold the story lengths range.
LenSlack == 1
\* Acceptance-criteria texts are built from every list of up to MaxAcLines lines.
MaxAcLines == 3
\* How far around MAX_ACCEPTANCE_CRITERIA the long criteria lists range.
LineSlack == 1

\* s, filled with a letter no keyword holds until it is n characters long.
PadTo(s, n) == IF Len(s) >= n THEN s ELSE s \o [i \in 1..(n - Len(s)) |-> "z"]

StoryBases ==
    {<<"x">>,
     <<"O","n","c","e"," ","s","a","v","e","d",","," ","r","e","p","o","r","t","s"," ","l","o","a","d">>,
     <<"s","h","o","u","l","d">>,
     <<"A","s"," ","a"," ",","," ","I"," ","w","a","n","t"," ",","," ","s","o"," ","t","h","a","t"," ">>,
     <<"A","s"," ","a"," ","u","s","e","r",","," ","I"," ","w","a","n","t"," ","t","o"," ","r","e","s","e","t"," ","m","y"," ","p","a","s","s","w","o","r","d",","," ","s","o"," ","t","h","a","t"," ","I"," ","c","a","n"," ","r","e","g","a","i","n"," ","a","c","c","e","s","s"," ","t","o"," ","m","y"," ","a","c","c","o","u","n","t">>,
     <<"A","S"," ","A","N"," ","A","D","M","I","N",","," ","I"," ","W","A","N","T"," ","R","E","P","O","R","T","S",","," ","S","O"," ","T","H","A","T"," ","A","U","D","I","T","S"," ","P","A","S","S">>,
     <<"A","s"," ","a"," ","u","s","e","r",","," ","I"," ","w","a","n","t"," ","x",","," ","s","o"," ","t","h","a","t"," ","a","b","c","d","e">>,
     <<"A","s"," ","a"," ","u","s","e","r",","," ","I"," ","w","a","n","t"," ","x",","," ","s","o"," ","t","h","a","t"," "," ","a","b","c","d","e","f"," ">>,
     <<"A","s"," ","a"," ","u","s","e","r"," ","I"," ","w","a","n","t"," ","x"," ","s","o"," ","t","h","a","t"," ","y">>,
     <<"A","s"," ","a"," ","u","s","e","r",",","\n","I"," ","w","a","n","t"," ","x",","," ","s","o"," ","t","h","a","t"," ","t","h","e"," ","v","a","l","u","e"," ","i","s"," ","l","o","n","g">>,
     <<"H","a","s"," ","a"," ","d","o","g",","," ","I"," ","w","a","n","t"," ","a"," ","c","a","t",","," ","s","o"," ","t","h","a","t"," ","w","e"," ","p","l","a","y">>,
     <<"A","s"," ","a"," ","u","s","e","r",","," ","I"," ","w","a","n","t"," ","x",","," ","s","o"," ","t","h","a","t"," ","i","t"," ","w","o","r","k","s"," ","a","f","t","e","r"," ","l","o","g","i","n">>,
     <<"A","s"," ","a"," ","d","e","v",","," ","I"," ","w","a","n","t"," ","a","n"," ","a","l","g","o","r","i","t","h","m",","," ","s","o"," ","t","h","a","t"," ","s","o","r","t","i","n","g"," ","i","s"," ","f","a","s","t">>,
     <<"A","s"," ","a"," ","d","e","v",","," ","I"," ","w","a","n","t"," ","a"," ","d","a","t","a","b","a","s","e",","," ","s","o"," ","t","h","a","t"," ","d","a","t","a"," ","p","e","r","s","i","s","t","s">>,
     <<"A","s"," ","a"," ","d","e","v",","," ","I"," ","w","a","n","t"," ","a"," ","S","Q","L"," ","q","u","e","r","y",","," ","s","o"," ","t","h","a","t"," ","d","a","t","a"," ","l","o","a","d","s">>,
     <<"A","s"," ","a"," ","u","s","e","r",","," ","I"," ","w","a","n","t"," ","x",","," ","s","o"," ","t","h","a","t"," ","i","t"," ","C","o","u","l","d"," ","w","o","r","k">>,
     <<"T","h","e"," ","c","o","n","c","e","r","n"," ","i","s"," ","s","p","e","e","d">>,
     <<"A","s"," ","a"," ","u","s","e","r",","," ","I"," ","w","a","n","t"," ","a",","," ","I"," ","w","a","n","t"," ","b",","," ","s","o"," ","t","h","a","t"," ","c",","," ","s","o"," ","t","h","a","t"," ","t","h","e"," ","v","a","l","u","e">>,
     <<"A","s"," ","a"," ","u","s","e","r",","," ","I"," ","w","a","n","t"," ","x",","," ","s","o"," ","t","h","a","t"," ","a","b","c","\n","d","e","f","g","h","i">>,
     <<"n","o","t","e","\n","A","s"," ","a","n"," ","o","w","n","e","r",","," ","I"," ","w","a","n","t"," ","x",","," ","s","o"," ","t","h","a","t"," ","v","a","l","u","e"," ","i","s"," ","c","l","e","a","r">>,
     <<"A","s"," ","a"," ","u","s","e","r",","," ","I"," ","w","a","n","t"," ","x",","," ","s","o"," ","t","h","a","t"," ","y"," ","i","s"," ","d","o","n","e","\n","A","s"," ","a"," ","u","s","e","r",","," ","I"," ","w","a","n","t"," ","x",","," ","s","o"," ","t","h","a","t"," ","z">>}

\* Lengths around a threshold, and 0 for the text as written.
Around(t) == {0} \cup (t - LenSlack)..(t + LenSlack)

\* The bases that are also filled up to the long-story threshold.
LongBases ==
    {<<"A","s"," ","a"," ",","," ","I"," ","w","a","n","t"," ",","," ","s","o"," ","t","h","a","t"," ">>,
     <<"A","s"," ","a"," ","u","s","e","r"," ","I"," ","w","a","n","t"," ","x"," ","s","o"," ","t","h","a","t"," ","y">>,
     <<"I","t"," ","m","i","g","h","t"," ","u","s","e"," ","a","n"," ","a","l","g","o","r","i","t","h","m"," ","a","f","t","e","r"," ","l","o","g","i","n">>}

BlankStories == {<<>>, <<" ">>, <<" ","\n","\t">>}

StoryTexts ==
    {PadTo(b, n) : b \in StoryBases, n \in Around(CONFIG.THRESHOLDS.SHORT_STORY_LENGTH)}
    \cup {PadTo(b, n) : b \in LongBases, n \in Around(CONFIG.THRESHOLDS.LONG_STORY_LENGTH)}
    \cup BlankStories

\* Values that are not strings: undefined, null, 0, a non-zero number, an object.
NonStrings == {JsUndefined, JsNull, JsNumber(0), JsNumber(42), JsObject}

StoryArgs == {JsString(s) : s \in StoryTexts} \cup NonStrings

\* The kinds of line: one with a testable keyword, one without, an empty one.
AcLines ==
    {<<"G","i","v","e","n"," ","a"," ","u","s","e","r"," ","l","o","g","s"," ","i","n">>,
     <<"I","t"," ","w","o","r","k","s">>,
     <<>>}

RECURSIVE joinLines(_)
joinLines(lines) ==
    IF lines = <<>> THEN <<>>
    ELSE IF Len(lines) = 1 THEN lines[1]
    ELSE lines[1] \o <<"\n">> \o joinLines(Tail(lines))

AcLineLists == UNION {[1..k -> AcLines] : k \in 0..MaxAcLines}

\* k copies of a line, one per line or with an empty line after each.
AcLongLists ==
    LET max == CONFIG.THRESHOLDS.MAX_ACCEPTANCE_CRITERIA
    IN  {[i \in 1..k |-> <<"M","a","k","e"," ","i","t"," ","n","i","c","e">>] : k \in (max - LineSlack)..(max + LineSlack)}
        \cup {[i \in 1..(2 * k) |-> IF i % 2 = 1 THEN <<"C","o","n","f","i","r","m"," ","t","h","a","t"," ","x">> ELSE <<" ">>] :
                k \in (max - LineSlack)..(max + LineSlack)}

AcExtras ==
    {<<" ">>,
     <<" ","\t","\r","\n"," ">>,
     <<"G","i","v","e","n"," ","X","\n","W","h","e","n"," ","Y","\n","T","h","e","n"," ","Z">>,
     <<"I","t"," ","s","h","o","u","l","d"," ","j","u","s","t"," ","w","o","r","k","\n","M","a","k","e"," ","i","t"," ","n","i","c","e">>,
     <<" "," ","E","N","S","U","R","E"," ","T","H","A","T"," ","i","t"," ","l","o","a","d","s"," "," ","\r","\n","f","a","s","t","\r","\n">>,
     <<"G","i","v","e","n"," ","a"," ","p","a","g","e","\n"," ","\n","M","a","k","e"," ","i","t"," ","n","i","c","e","\n","\t","\n","T","h","e","n"," ","i","t"," ","s","h","o","w","s">>}

AcTexts == {joinLines(l) : l \in AcLineLists \cup AcLongLists} \cup AcExtras

AcArgs == {JsString(s) : s \in AcTexts} \cup NonStrings

-----------------------------------------------------------------------------
(* The state machine                                                       *)

\* No call has been made yet.
NoCall == [called |-> FALSE]

\* The outcome of a call: the Report it returned or the error it threw.
Outcome(call) ==
    IF call.threw THEN [called |-> TRUE, threw |-> TRUE, error |-> call.error]
    ELSE [called |-> TRUE, threw |-> FALSE, report |-> call.value]

\* A search that calls reverse() on the bands, which reorders its receiver in place.
afterFindReversing(array) == [k \in 1..Len(array) |-> array[Len(array) + 1 - k]]

\* Array.prototype.find searches its receiver and leaves it as it was.
afterFind(array) == array

\* A loop that shifts each keyword off the list as it tests it.
afterSomeShifting(array) == <<>>

\* Array.prototype.some tests the items of its receiver and leaves it as it was.
afterSome(array) == array

\* CONFIG after getReadinessCategory has searched the bands.
bandsSearched(c) == [c EXCEPT !.READINESS_CATEGORIES = afterFind(@)]

\* CONFIG after analyzeAcceptanceCriteria: the forEach loop runs some over
\* TESTABLE_AC once for every criterion line, so not at all when there is none.
criteriaTested(c, acCall) ==
    IF acCall.threw \/ acCall.value.criteria = <<>> THEN c
    ELSE [c EXCEPT !.KEYWORDS.TESTABLE_AC = afterSome(@)]

\* CONFIG after analyzeClarityAndRequirement: some over AMBIGUOUS, then the AC analysis.
clarityAnalysed(c, acCall) ==
    criteriaTested([c EXCEPT !.KEYWORDS.AMBIGUOUS = afterSome(@)], acCall)

\* CONFIG after analyzeINVEST: the AC analysis, then some over DEPENDENCIES
\* and over TECHNICAL unless the AC analysis threw.
investAnalysed(c, acCall) ==
    IF acCall.threw THEN c
    ELSE [criteriaTested(c, acCall) EXCEPT !.KEYWORDS.DEPENDENCIES = afterSome(@),
                                           !.KEYWORDS.TECHNICAL = afterSome(@)]

\* CONFIG after a whole call of the scoring path.
scoringDone(c, acCall) ==
    IF acCall.threw THEN clarityAnalysed(c, acCall)
    ELSE bandsSearched(investAnalysed(clarityAnalysed(c, acCall), acCall))

\* CONFIG after a whole call: the engine assigns to none of its members, and
\* calls find and some on its lists.
configAfterCall ==
    IF storyMissing(story) THEN bandsSearched(config)
    ELSE scoringDone(config, analyzeAcceptanceCriteria(acOrDefault(ac)))

\* The tasks of the process that call the engine.
Tasks == {1, 2}

\* A task that is making no call: the parameters and local variables of
\* analyzeUserStory are unassigned.
NoFrame ==
    [pc |-> "idle", story |-> JsUndefined, ac |-> JsUndefined,
     clarityAnalysis |-> JsUndefined, investAnalysis |-> JsUndefined,
     percentage |-> JsUndefined, categoryInfo |-> JsUndefined,
     outcome |-> NoCall,
     overlapped |-> FALSE]  \* a statement of another task has run since this call was entered

NoCalls == [t \in Tasks |-> NoFrame]

\* The React form is not part of the run.
NoApp == [mounted |-> FALSE]

\* No request has been given to the HTTP handler.
NoEvent == [httpMethod |-> "", body |-> JsUndefined]

\* One call of the engine on arguments drawn at the start.
Init ==
    /\ config = CONFIG
    /\ story \in StoryArgs
    /\ ac \in AcArgs
    /\ result = NoCall
    /\ calls = NoCalls
    /\ lookup = NoCall
    /\ event = NoEvent
    /\ response = NoCall
    /\ app = NoApp

AnalyzeUserStory ==
    /\ ~result.called
    /\ result' = Outcome(analyzeUserStory(story, ac))
    /\ config' = configAfterCall
    /\ UNCHANGED <<story, ac, calls, lookup, event, response, app>>

Next == AnalyzeUserStory

Spec == Init /\ [][Next]_vars

\* Calls made by the tasks of one process, which share CONFIG.  A JavaScript
\* host runs a call to completion before it starts the next, which is the
\* schedule where the statements of a call are consecutive; here a task may be
\* suspended between any two statements of analyzeUserStory, which covers
\* that schedule and every interleaving of threads over one CONFIG as well.
CallStories ==
    {JsString(s) : s \in {<<"s","h","o","u","l","d">>,
                          <<" ">>,
                          <<"A","s"," ","a"," ","u","s","e","r",","," ","I"," ","w","a","n","t"," ","x",","," ","s","o"," ","t","h","a","t"," ","a","b","c","d","e","f">>}}
    \cup {JsUndefined}

CallAcs ==
    {JsString(s) : s \in {<<"G","i","v","e","n"," ","a"," ","u","s","e","r","\n","I","t"," ","w","o","r","k","s">>,
                          <<"I","t"," ","w","o","r","k","s">>}}
    \cup {JsUndefined, JsObject}

InitCalls ==
    /\ config = CONFIG
    /\ story = JsUndefined
    /\ ac = JsUndefined
    /\ result = NoCall
    /\ calls = NoCalls
    /\ lookup = NoCall
    /\ event = NoEvent
    /\ response = NoCall
    /\ app = NoApp

\* The positions of a call that has been entered and has not returned.
Running == {"clarity", "invest", "rate", "generate"}

\* The frames as task t leaves them for the others when it runs a statement:
\* a call of another task that is under way has been overlapped.
overlapping(t) ==
    [u \in Tasks |-> IF u # t /\ calls[u].pc \in Running
                     THEN [calls[u] EXCEPT !.overlapped = TRUE]
                     ELSE calls[u]]

\* The frame of a call that has ended, by return or by throw; its local
\* variables are gone.
ended(frame, call) ==
    [NoFrame EXCEPT !.pc = "returned", !.story = frame.story, !.ac = frame.ac,
                    !.overlapped = frame.overlapped, !.outcome = Outcome(call)]

\* The frame of a call on entry: the parameters bound, the local variables
\* not yet assigned.
entered(s, a) == [NoFrame EXCEPT !.pc = "clarity", !.story = s, !.ac = a]

\* The frame after const clarityAnalysis = analyzeClarityAndRequirement(...).
clarityBound(frame, call) ==
    IF call.threw THEN ended(frame, call)
    ELSE [frame EXCEPT !.pc = "invest", !.clarityAnalysis = call.value]

\* The frame after const investAnalysis = analyzeINVEST(...).
investBound(frame, call) ==
    IF call.threw THEN ended(frame, call)
    ELSE [frame EXCEPT !.pc = "rate", !.investAnalysis = call.value]

\* The frame after percentage, categoryInfo and overallReadiness are
\* computed: reading .label of an undefined category throws.
ratingBound(frame, percentage, categoryInfo) ==
    IF ~categoryInfo.found
    THEN ended(frame, Thrown("Cannot read properties of undefined (reading 'label')"))
    ELSE [frame EXCEPT !.pc = "generate", !.percentage = percentage,
                       !.categoryInfo = categoryInfo]

\* The Report the return statement builds from the local variables.
reportBuilt(frame) ==
    scoredReport(frame.clarityAnalysis, frame.investAnalysis, frame.percentage,
                 frame.categoryInfo,
                 generateQueriesAndRecommendations(frame.story.str, frame.clarityAnalysis,
                                                   frame.investAnalysis))

\* Task t calls analyzeUserStory(s, a): the story guard, and on a missing
\* story the empty report at once.
Enter(t, s, a) ==
    /\ calls[t].pc \in {"idle", "returned"}
    /\ calls' = [overlapping(t) EXCEPT ![t] =
                    IF storyMissing(s) THEN ended(entered(s, a), emptyResult(generateEmptyReport))
                    ELSE entered(s, a)]
    /\ config' = IF storyMissing(s) THEN bandsSearched(config) ELSE config
    /\ UNCHANGED <<story, ac, result, lookup, event, response, app>>

\* const clarityAnalysis = analyzeClarityAndRequirement(story, acceptanceCriteriaText)
AnalyzeClarity(t) ==
    /\ calls[t].pc = "clarity"
    /\ calls' = [overlapping(t) EXCEPT ![t] =
                    clarityBound(@, analyzeClarityAndRequirement(@.story.str, acOrDefault(@.ac)))]
    /\ config' = clarityAnalysed(config, analyzeAcceptanceCriteria(acOrDefault(calls[t].ac)))
    /\ UNCHANGED <<story, ac, result, lookup, event, response, app>>

\* const investAnalysis = analyzeINVEST(story, acceptanceCriteriaText)
AnalyzeINVEST(t) ==
    /\ calls[t].pc = "invest"
    /\ calls' = [overlapping(t) EXCEPT ![t] =
                    investBound(@, analyzeINVEST(@.story.str, acOrDefault(@.ac)))]
    /\ config' = investAnalysed(config, analyzeAcceptanceCriteria(acOrDefault(calls[t].ac)))
    /\ UNCHANGED <<story, ac, result, lookup, event, response, app>>

\* The rating: actualScore, percentage, categoryInfo and overallReadiness.
Rate(t) ==
    /\ calls[t].pc = "rate"
    /\ calls' = [overlapping(t) EXCEPT ![t] =
                    ratingBound(@, roundPercent(@.clarityAnalysis.total + @.investAnalysis.total, 40 + 60),
                                getReadinessCategory(roundPercent(@.clarityAnalysis.total
                                                                  + @.investAnalysis.total, 40 + 60)))]
    /\ config' = bandsSearched(config)
    /\ UNCHANGED <<story, ac, result, lookup, event, response, app>>

\* generateQueriesAndRecommendations and the return of the Report.
Generate(t) ==
    /\ calls[t].pc = "generate"
    /\ calls' = [overlapping(t) EXCEPT ![t] = ended(@, Returned(reportBuilt(@)))]
    /\ UNCHANGED <<config, story, ac, result, lookup, event, response, app>>

NextCalls ==
    \E t \in Tasks :
        \/ \E s \in CallStories, a \in CallAcs : Enter(t, s, a)
        \/ AnalyzeClarity(t)
        \/ AnalyzeINVEST(t)
        \/ Rate(t)
        \/ Generate(t)

SpecCalls == InitCalls /\ [][NextCalls]_vars

\* How far beyond the percentages 0..100 the scores looked up range.
ScoreSlack == 1

\* The scores getReadinessCategory is called on.
Scores == (0 - ScoreSlack)..(100 + ScoreSlack)

\* What a lookup leaves: the score asked for and the band found, if any.
Looked(score, categoryInfo) ==
    IF categoryInfo.found
    THEN [called |-> TRUE, score |-> score, found |-> TRUE,
          label |-> categoryInfo.label, summary |-> categoryInfo.summary]
    ELSE [called |-> TRUE, score |-> score, found |-> FALSE]

\* The band lookup called on its own, on any score.
InitBands ==
    /\ config = CONFIG
    /\ story = JsUndefined
    /\ ac = JsUndefined
    /\ result = NoCall
    /\ calls = NoCalls
    /\ lookup = NoCall
    /\ event = NoEvent
    /\ response = NoCall
    /\ app = NoApp

GetReadinessCategory(score) ==
    /\ lookup' = Looked(score, getReadinessCategory(score))
    /\ config' = configAfterCall
    /\ UNCHANGED <<story, ac, result, calls, event, response, app>>

NextBands == \E score \in Scores : GetReadinessCategory(score)

SpecBands == InitBands /\ [][NextBands]_vars

\* What a call of the AC analysis leaves: its result or the error it threw.
Tallied(call) ==
    IF call.threw THEN [called |-> TRUE, threw |-> TRUE, error |-> call.error]
    ELSE [called |-> TRUE, threw |-> FALSE, analysis |-> call.value]

\* The AC analysis called on its own, on an argument drawn at the start.
InitCriteria ==
    /\ config = CONFIG
    /\ story = JsUndefined
    /\ ac \in AcArgs
    /\ result = NoCall
    /\ calls = NoCalls
    /\ lookup = NoCall
    /\ event = NoEvent
    /\ response = NoCall
    /\ app = NoApp

AnalyzeAcceptanceCriteria ==
    /\ ~lookup.called
    /\ lookup' = Tallied(analyzeAcceptanceCriteria(ac))
    /\ config' = configAfterCall
    /\ UNCHANGED <<story, ac, result, calls, event, response, app>>

NextCriteria == AnalyzeAcceptanceCriteria

SpecCriteria == InitCriteria /\ [][NextCriteria]_vars

-----------------------------------------------------------------------------
(* JSON.parse, for the request bodies of the HTTP handler                  *)

\* A parse step: the value read and the position after it, or a failure.
Parsed(v, next) == [ok |-> TRUE, value |-> v, next |-> next]
NoParse == [ok |-> FALSE]

\* An object literal, with the two properties the handler reads.
JsObjectOf(props) == [type |-> "object", str |-> <<>>, num |-> 0, props |-> props]
NoProps == [story |-> JsUndefined, acceptanceCriteria |-> JsUndefined]

\* Reading a property: undefined unless the value is an object that has it.
property(v, name) ==
    IF v.type = "object" /\ "props" \in DOMAIN v THEN v.props[name] ELSE JsUndefined

JsonWhiteSpace == {" ", "\t", "\n", "\r"}
Digits == <<"0", "1", "2", "3", "4", "5", "6", "7", "8", "9">>
DigitChars == {Digits[k] : k \in 1..Len(Digits)}

\* The first position from p on that holds no white space (Len(s) + 1 at the end).
skipWs(s, p) == Min({q \in p..(Len(s) + 1) : q = Len(s) + 1 \/ s[q] \notin JsonWhiteSpace})

\* The characters of word stand at p, compared exactly.
wordAt(s, p, word) ==
    /\ p + Len(word) - 1 <= Len(s)
    /\ \A j \in 1..Len(word) : s[p + j - 1] = word[j]

\* The number of backslashes that stand directly before position k, from lo on.
slashesBefore(s, lo, k) == k - 1 - Max({lo - 1} \cup {j \in lo..(k - 1) : s[j] # "\\"})

\* The quote that closes the string opened at p: the first one behind an even
\* number of backslashes.
closingQuotes(s, p) ==
    {q \in (p + 1)..Len(s) : s[q] = "\"" /\ slashesBefore(s, p + 1, q) % 2 = 0}

\* Within the raw text c of a string: k starts an escape, or is the letter of one.
escapeStart(c, k) == c[k] = "\\" /\ slashesBefore(c, 1, k) % 2 = 0
escapeLetter(c, k) == k > 1 /\ escapeStart(c, k - 1)

\* The character an escape letter stands for (the escapes used in the bodies).
Unescape == ("n" :> "\n") @@ ("t" :> "\t") @@ ("r" :> "\r") @@ ("\"" :> "\"")
            @@ ("\\" :> "\\") @@ ("/" :> "/")

\* The raw text is well formed: no control character, every escape known.
rawStringOk(c) ==
    \A k \in 1..Len(c) :
        /\ c[k] \notin {"\n", "\r", "\t"}
        /\ escapeStart(c, k) => (k < Len(c) /\ c[k + 1] \in DOMAIN Unescape)

\* The text a raw string denotes: escape starts dropped, escape letters decoded.
decodedAt(c, kept, i) ==
    IF escapeLetter(c, kept[i]) THEN Unescape[c[kept[i]]] ELSE c[kept[i]]
decodedOver(c, kept) == [i \in 1..Len(kept) |-> decodedAt(c, kept, i)]
decoded(c) ==
    decodedOver(c, pushed([k \in 1..Len(c) |-> ~escapeStart(c, k)], [k \in 1..Len(c) |-> k]))

\* A string literal at p.
stringUpTo(s, p, q) ==
    IF rawStringOk(SubSeq(s, p + 1, q - 1))
    THEN Parsed(JsString(decoded(SubSeq(s, p + 1, q - 1))), q + 1)
    ELSE NoParse
stringAt(s, p) ==
    IF p > Len(s) \/ s[p] # "\"" \/ closingQuotes(s, p) = {} THEN NoParse
    ELSE stringUpTo(s, p, Min(closingQuotes(s, p)))

\* The value of a run of digits.
RECURSIVE digitsValue(_)
digitsValue(d) ==
    IF d = <<>> THEN 0
    ELSE 10 * digitsValue(SubSeq(d, 1, Len(d) - 1))
         + (CHOOSE n \in 0..9 : Digits[n + 1] = d[Len(d)])

\* A number at p: an integer with an optional sign and no leading zero.
digitsEnd(s, p) == Min({q \in p..(Len(s) + 1) : q = Len(s) + 1 \/ s[q] \notin DigitChars})
unsignedAt(s, p, sign) ==
    IF digitsEnd(s, p) = p THEN NoParse
    ELSE IF s[p] = "0" /\ digitsEnd(s, p) > p + 1 THEN Parsed(JsNumber(0), p + 1)
    ELSE Parsed(JsNumber(sign * digitsValue(SubSeq(s, p, digitsEnd(s, p) - 1))), digitsEnd(s, p))
numberAt(s, p) ==
    IF p <= Len(s) /\ s[p] = "-" THEN unsignedAt(s, p + 1, 0 - 1) ELSE unsignedAt(s, p, 1)

\* An empty array at p.
arrayAt(s, p) ==
    IF skipWs(s, p + 1) <= Len(s) /\ s[skipWs(s, p + 1)] = "]"
    THEN Parsed(JsObject, skipWs(s, p + 1) + 1)
    ELSE NoParse

RECURSIVE valueAt(_, _)
RECURSIVE membersFrom(_, _, _)

\* After a member: a comma and the next member, or the closing brace.
afterMember(s, r, props) ==
    IF r > Len(s) THEN NoParse
    ELSE IF s[r] = "," THEN membersFrom(s, skipWs(s, r + 1), props)
    ELSE IF s[r] = "}" THEN Parsed(JsObjectOf(props), r + 1)
    ELSE NoParse

\* The object with one more member; a later member of the same name wins.
withMember(props, name, v) ==
    [story |-> IF name = <<"s","t","o","r","y">> THEN v ELSE props.story,
     acceptanceCriteria |->
        IF name = <<"a","c","c","e","p","t","a","n","c","e","C","r","i","t","e","r","i","a">>
        THEN v ELSE props.acceptanceCriteria]

memberValue(s, props, key, v) ==
    IF ~v.ok THEN NoParse
    ELSE afterMember(s, skipWs(s, v.next), withMember(props, key.value.str, v.value))

memberColon(s, props, key, q) ==
    IF q > Len(s) \/ s[q] # ":" THEN NoParse
    ELSE memberValue(s, props, key, valueAt(s, skipWs(s, q + 1)))

memberKey(s, props, key) ==
    IF ~key.ok THEN NoParse ELSE memberColon(s, props, key, skipWs(s, key.next))

\* The members of an object from p on, added to props.
membersFrom(s, p, props) == memberKey(s, props, stringAt(s, p))

\* An object at p.
objectAt(s, p) ==
    IF skipWs(s, p + 1) <= Len(s) /\ s[skipWs(s, p + 1)] = "}"
    THEN Parsed(JsObjectOf(NoProps), skipWs(s, p + 1) + 1)
    ELSE membersFrom(s, skipWs(s, p + 1), NoProps)

\* A JSON value at p.
valueAt(s, p) ==
    IF p > Len(s) THEN NoParse
    ELSE IF s[p] = "{" THEN objectAt(s, p)
    ELSE IF s[p] = "[" THEN arrayAt(s, p)
    ELSE IF s[p] = "\"" THEN stringAt(s, p)
    ELSE IF wordAt(s, p, <<"t","r","u","e">>) THEN Parsed(JsBoolean(TRUE), p + 4)
    ELSE IF wordAt(s, p, <<"f","a","l","s","e">>) THEN Parsed(JsBoolean(FALSE), p + 5)
    ELSE IF wordAt(s, p, <<"n","u","l","l">>) THEN Parsed(JsNull, p + 4)
    ELSE numberAt(s, p)

\* JSON.parse: one value with white space around it, or a SyntaxError.
wholeText(s, v) ==
    IF v.ok /\ skipWs(s, v.next) = Len(s) + 1 THEN Returned(v.value)
    ELSE Thrown("Unexpected token in JSON")
JSONparse(s) == wholeText(s, valueAt(s, skipWs(s, 1)))

-----------------------------------------------------------------------------
(* The HTTP handler                                                        *)

\* What the handler returns: a status code, the value it serialises as the
\* body, and the content-type header.
Response(statusCode, body) ==
    [called |-> TRUE, statusCode |-> statusCode, body |-> body,
     headers |-> ("Content-Type" :> "application/json")]

\* event.body || '{}'
bodyText(ev) == IF Truthy(ev.body) THEN ev.body.str ELSE <<"{", "}">>

\* acceptanceCriteria || ""
orEmpty(acceptanceCriteria) ==
    IF Truthy(acceptanceCriteria) THEN acceptanceCriteria ELSE JsString(<<>>)

\* The engine's outcome as a response: 200 with the Report, or the catch
\* block's 500 for an error that is no SyntaxError.
analysed(call) ==
    IF call.threw
    THEN Response(500, [error |-> "Internal Server Error", details |-> call.error])
    ELSE Response(200, call.value)

\* The check on story, then the engine call.
withStory(storyValue, acceptanceCriteria) ==
    IF storyValue.type \in {"undefined", "null"}
    THEN Response(400, [error |-> "Missing 'story' in request body."])
    ELSE analysed(analyzeUserStory(storyValue, orEmpty(acceptanceCriteria)))

\* const { story, acceptanceCriteria } = body: destructuring null throws a TypeError.
withBody(body) ==
    IF body.type = "null"
    THEN analysed(Thrown("Cannot destructure property 'story' of 'body' as it is null."))
    ELSE withStory(property(body, "story"), property(body, "acceptanceCriteria"))

\* The catch block: a SyntaxError from JSON.parse becomes a 400.
parsedBody(parse) ==
    IF parse.threw THEN Response(400, [error |-> "Invalid JSON in request body."])
    ELSE withBody(parse.value)

handler(ev) ==
    IF ev.httpMethod # "POST"
    THEN Response(405, [error |-> "Method Not Allowed. Only POST requests are accepted."])
    ELSE parsedBody(JSONparse(bodyText(ev)))

\* Request bodies that carry a story, each with the story and the acceptance
\* criteria it encodes.
RequestsWithStory ==
    {[text |-> <<"{","\"","s","t","o","r","y","\"",":","\"","A","s"," ","a"," ","u","s","e","r",","," ","I"," ","w","a","n","t"," ","t","o"," ","r","e","s","e","t"," ","m","y"," ","p","a","s","s","w","o","r","d",","," ","s","o"," ","t","h","a","t"," ","I"," ","c","a","n"," ","r","e","g","a","i","n"," ","a","c","c","e","s","s"," ","t","o"," ","m","y"," ","a","c","c","o","u","n","t","\"","}">>,
      story |-> JsString(<<"A","s"," ","a"," ","u","s","e","r",","," ","I"," ","w","a","n","t"," ","t","o"," ","r","e","s","e","t"," ","m","y"," ","p","a","s","s","w","o","r","d",","," ","s","o"," ","t","h","a","t"," ","I"," ","c","a","n"," ","r","e","g","a","i","n"," ","a","c","c","e","s","s"," ","t","o"," ","m","y"," ","a","c","c","o","u","n","t">>),
      acceptanceCriteria |-> JsUndefined],
     [text |-> <<"{","\"","s","t","o","r","y","\"",":","\"","A","s"," ","a"," ","u","s","e","r",","," ","I"," ","w","a","n","t"," ","x",","," ","s","o"," ","t","h","a","t"," ","a","b","c","d","e","f","\"",",","\"","a","c","c","e","p","t","a","n","c","e","C","r","i","t","e","r","i","a","\"",":","\"","G","i","v","e","n"," ","a","\\","n","I","t"," ","w","o","r","k","s","\"","}">>,
      story |-> JsString(<<"A","s"," ","a"," ","u","s","e","r",","," ","I"," ","w","a","n","t"," ","x",","," ","s","o"," ","t","h","a","t"," ","a","b","c","d","e","f">>),
      acceptanceCriteria |-> JsString(<<"G","i","v","e","n"," ","a","\n","I","t"," ","w","o","r","k","s">>)],
     [text |-> <<"{","\"","s","t","o","r","y","\"",":","\"","x","\"",",","\"","a","c","c","e","p","t","a","n","c","e","C","r","i","t","e","r","i","a","\"",":","\"","\"","}">>,
      story |-> JsString(<<"x">>),
      acceptanceCriteria |-> JsString(<<>>)],
     [text |-> <<" ","{"," ","\"","s","t","o","r","y","\""," ",":"," ","\"","s","a","y"," ","\\","\"","h","i","\\","\""," ","\\","\\"," ","o","n","c","e","\""," ",","," ","\"","o","t","h","e","r","\""," ",":"," ","["," ","]"," ","}"," ">>,
      story |-> JsString(<<"s","a","y"," ","\"","h","i","\""," ","\\"," ","o","n","c","e">>),
      acceptanceCriteria |-> JsUndefined],
     [text |-> <<"{","\"","s","t","o","r","y","\"",":","\""," "," ","\"","}">>,
      story |-> JsString(<<" "," ">>),
      acceptanceCriteria |-> JsUndefined],
     [text |-> <<"{","\"","s","t","o","r","y","\"",":","\"","\"","}">>,
      story |-> JsString(<<>>),
      acceptanceCriteria |-> JsUndefined],
     [text |-> <<"{","\"","s","t","o","r","y","\"",":","\"","\\","t","\\","n","\"","}">>,
      story |-> JsString(<<"\t","\n">>),
      acceptanceCriteria |-> JsUndefined],
     [text |-> <<"{","\"","s","t","o","r","y","\"",":","4","2","}">>,
      story |-> JsNumber(42),
      acceptanceCriteria |-> JsUndefined],
     [text |-> <<"{","\"","s","t","o","r","y","\"",":","0",",","\"","a","c","c","e","p","t","a","n","c","e","C","r","i","t","e","r","i","a","\"",":","\"","G","i","v","e","n"," ","a","\"","}">>,
      story |-> JsNumber(0),
      acceptanceCriteria |-> JsString(<<"G","i","v","e","n"," ","a">>)],
     [text |-> <<"{","\"","s","t","o","r","y","\"",":","f","a","l","s","e","}">>,
      story |-> JsBoolean(FALSE),
      acceptanceCriteria |-> JsUndefined],
     [text |-> <<"{","\"","s","t","o","r","y","\"",":","{","}","}">>,
      story |-> JsObject,
      acceptanceCriteria |-> JsUndefined],
     [text |-> <<"{","\"","s","t","o","r","y","\"",":","\"","x","\"",",","\"","a","c","c","e","p","t","a","n","c","e","C","r","i","t","e","r","i","a","\"",":","4","2","}">>,
      story |-> JsString(<<"x">>),
      acceptanceCriteria |-> JsNumber(42)],
     [text |-> <<"{","\"","s","t","o","r","y","\"",":","\"","x","\"",",","\"","a","c","c","e","p","t","a","n","c","e","C","r","i","t","e","r","i","a","\"",":","t","r","u","e","}">>,
      story |-> JsString(<<"x">>),
      acceptanceCriteria |-> JsBoolean(TRUE)],
     [text |-> <<"{","\"","s","t","o","r","y","\"",":","\"","x","\"",",","\"","a","c","c","e","p","t","a","n","c","e","C","r","i","t","e","r","i","a","\"",":","{","\"","s","t","o","r","y","\"",":","\"","y","\"","}","}">>,
      story |-> JsString(<<"x">>),
      acceptanceCriteria |-> JsObject],
     [text |-> <<"{","\"","s","t","o","r","y","\"",":","\""," ","\"",",","\"","a","c","c","e","p","t","a","n","c","e","C","r","i","t","e","r","i","a","\"",":","4","2","}">>,
      story |-> JsString(<<" ">>),
      acceptanceCriteria |-> JsNumber(42)],
     [text |-> <<"{","\"","s","t","o","r","y","\"",":","\"","x","\"",",","\"","a","c","c","e","p","t","a","n","c","e","C","r","i","t","e","r","i","a","\"",":","n","u","l","l","}">>,
      story |-> JsString(<<"x">>),
      acceptanceCriteria |-> JsNull],
     [text |-> <<"{","\"","s","t","o","r","y","\"",":","\"","x","\"",",","\"","a","c","c","e","p","t","a","n","c","e","C","r","i","t","e","r","i","a","\"",":","0","}">>,
      story |-> JsString(<<"x">>),
      acceptanceCriteria |-> JsNumber(0)],
     [text |-> <<"{","\"","s","t","o","r","y","\"",":","\"","x","\"",",","\"","a","c","c","e","p","t","a","n","c","e","C","r","i","t","e","r","i","a","\"",":","f","a","l","s","e","}">>,
      story |-> JsString(<<"x">>),
      acceptanceCriteria |-> JsBoolean(FALSE)],
     [text |-> <<"{","\"","s","t","o","r","y","\"",":","n","u","l","l",",","\"","s","t","o","r","y","\"",":","\"","s","h","o","u","l","d","\"","}">>,
      story |-> JsString(<<"s","h","o","u","l","d">>),
      acceptanceCriteria |-> JsUndefined],
     [text |-> <<"{","\"","a","c","c","e","p","t","a","n","c","e","C","r","i","t","e","r","i","a","\"",":","\"","I","t"," ","w","o","r","k","s","\"",",","\"","s","t","o","r","y","\"",":","\"","T","h","e"," ","c","o","n","c","e","r","n"," ","i","s"," ","s","p","e","e","d","\"","}">>,
      story |-> JsString(<<"T","h","e"," ","c","o","n","c","e","r","n"," ","i","s"," ","s","p","e","e","d">>),
      acceptanceCriteria |-> JsString(<<"I","t"," ","w","o","r","k","s">>)]}

\* Request bodies that are not JSON.
InvalidJsonBodies ==
    {<<"{">>,
     <<"n","o","t"," ","j","s","o","n">>,
     <<"{","s","t","o","r","y",":","\"","x","\"","}">>,
     <<"{","\"","s","t","o","r","y","\"",":","\"","a","\n","b","\"","}">>,
     <<"{","\"","s","t","o","r","y","\"",":","\"","x","\"",",","}">>,
     <<"n","u","l">>,
     <<"{","\"","s","t","o","r","y","\"",":","\"","x","\"","}"," ","x">>,
     <<"{","\"","s","t","o","r","y","\"",":","0","1","}">>,
     <<"{","\"","s","t","o","r","y","\"",":","\"","a","\\","q","b","\"","}">>,
     <<"{","'","s","t","o","r","y","'",":","'","x","'","}">>,
     <<"{","\"","s","t","o","r","y","\""," ","\"","x","\"","}">>,
     <<"{","\"","s","t","o","r","y","\"",":","-","}">>,
     <<"\"","o","p","e","n">>}

\* Request bodies that are JSON without a story, or with story null.
BodiesWithoutStory ==
    {<<"{","}">>,
     <<" ","{"," ","}"," ">>,
     <<"{","\"","a","c","c","e","p","t","a","n","c","e","C","r","i","t","e","r","i","a","\"",":","\"","G","i","v","e","n"," ","x","\"","}">>,
     <<"{","\"","s","t","o","r","y","\"",":","n","u","l","l","}">>,
     <<"{","\"","S","t","o","r","y","\"",":","\"","x","\"","}">>,
     <<"4","2">>,
     <<"-","7">>,
     <<"\"","s","t","o","r","y","\"">>,
     <<"t","r","u","e">>,
     <<"f","a","l","s","e">>,
     <<"[","]">>,
     <<"{","\"","s","t","o","r","y","\"",":","\"","x","\"",",","\"","s","t","o","r","y","\"",":","n","u","l","l","}">>,
     <<"{","\"","o","t","h","e","r","\"",":","{","\"","s","t","o","r","y","\"",":","\"","x","\"","}","}">>}

\* The body that is the JSON text null.
NullBody == <<"n","u","l","l">>

\* A request without a body: the property undefined, null or "".
AbsentBodies == {JsUndefined, JsNull, JsString(<<>>)}

HttpMethods == {"POST", "GET", "PUT", "OPTIONS"}

Events ==
    [httpMethod : HttpMethods,
     body : AbsentBodies
            \cup {JsString(t) : t \in InvalidJsonBodies \cup BodiesWithoutStory \cup {NullBody}}
            \cup {JsString(r.text) : r \in RequestsWithStory}]

\* One request, drawn at the start, given to the handler.
InitHandler ==
    /\ config = CONFIG
    /\ story = JsUndefined
    /\ ac = JsUndefined
    /\ result = NoCall
    /\ calls = NoCalls
    /\ lookup = NoCall
    /\ event \in Events
    /\ response = NoCall
    /\ app = NoApp

Handler ==
    /\ ~response.called
    /\ response' = handler(event)
    /\ config' = configAfterCall
    /\ UNCHANGED <<story, ac, result, calls, lookup, event, app>>

NextHandler == Handler

SpecHandler == InitHandler /\ [][NextHandler]_vars

------------------------------------------------------------------------------
(* The Markdown-report variant of the engine (version 3.0.0)               *)

\* Its CONFIG: two more ambiguous terms, the technical terms "database" and
\* "sql" on their own, and shorter band summaries.
CONFIGMd ==
    [CONFIG EXCEPT
        !.KEYWORDS.AMBIGUOUS =
            <<<<"s","h","o","u","l","d">>, <<"c","o","u","l","d">>, <<"m","i","g","h","t">>, <<"e","t","c",".">>, <<"a","n","d","/","o","r">>>>,
        !.KEYWORDS.TECHNICAL =
            <<<<"d","a","t","a","b","a","s","e">>,
              <<"a","p","i"," ","e","n","d","p","o","i","n","t">>,
              <<"r","e","a","c","t"," ","c","o","m","p","o","n","e","n","t">>,
              <<"a","l","g","o","r","i","t","h","m">>,
              <<"s","q","l">>>>,
        !.READINESS_CATEGORIES =
            <<[score |-> 90, label |-> "Excellent - Ready for Development",
               summary |-> "Story is well-formed, clear, and meets all INVEST criteria."],
              [score |-> 71, label |-> "At Standard Expected - Minor Refinement Needed",
               summary |-> "Mostly ready with small gaps that can be addressed quickly."],
              [score |-> 50, label |-> "Requires Improvement - Needs Refinement",
               summary |-> "Multiple issues present. Not ready for development without rework."],
              [score |-> 0, label |-> "Not Ready - Fundamentally Incomplete",
               summary |-> "Lacks essential components. Requires major revision."]>>]

\* String.prototype.toUpperCase on one letter of the model's alphabet.
UpperChar(c) ==
    IF \E u \in UpperLetters : LowerMap[u] = c
    THEN CHOOSE u \in UpperLetters : LowerMap[u] = c
    ELSE c

\* The sample criteria inferred from the goal of a story without criteria.
inferAcceptanceCriteria(formatMatch) ==
    IF ~formatMatch.matched \/ formatMatch.groups[2] = <<>> THEN <<>>
    ELSE <<"Given the user is on the relevant page, when they attempt to "
              \o Text(formatMatch.groups[2]) \o ", then the expected outcome occurs.",
           "Given the user provides invalid input for '" \o Text(formatMatch.groups[2])
              \o "', when they submit, then a clear error message is displayed.",
           "Verify that the action to '" \o Text(formatMatch.groups[2])
              \o "' is logged for analytics.">>

\* The smaller stories suggested for a large one.
suggestDecomposition(formatMatch) ==
    IF ~formatMatch.matched THEN <<>>
    ELSE IF includes(toLowerCase(formatMatch.groups[2]), <<"m","a","n","a","g","e">>)
    THEN <<"As a " \o Text(formatMatch.groups[1]) \o ", I want to create a new item, so that "
              \o Text(formatMatch.groups[3]) \o ".",
           "As a " \o Text(formatMatch.groups[1]) \o ", I want to edit an existing item, so that "
              \o Text(formatMatch.groups[3]) \o ".",
           "As a " \o Text(formatMatch.groups[1]) \o ", I want to delete an item, so that "
              \o Text(formatMatch.groups[3]) \o ".">>
    ELSE <<"Consider splitting the story by individual acceptance criteria or steps in the user workflow. Each new story should still provide value.">>

\* The acceptance-criteria sub-score of the variant, with its own feedback.
acceptanceCriteriaCheckMd(acceptanceCriteriaText, acAnalysis) ==
    IF ~Truthy(acceptanceCriteriaText)
    THEN [score |-> config.SCORING.AC_MISSING,
          feedback |-> "Acceptance criteria are missing. Clear, testable ACs are essential. Consider using the 'Given/When/Then' format."]
    ELSE IF Len(acAnalysis.criteria) > 0
    THEN IF mostlyNonTestable(acAnalysis.nonTestableCount, Len(acAnalysis.criteria))
         THEN [score |-> config.SCORING.AC_PROVIDED - config.SCORING.AC_NON_TESTABLE_DEDUCTION,
               feedback |->
                  "Acceptance criteria provided (" \o ToString(Len(acAnalysis.criteria))
                  \o " criteria found). Ensure they are specific and testable."
                  \o " Some ACs may not be easily testable; consider phrasing with keywords like 'Verify that...'."]
         ELSE [score |-> config.SCORING.AC_PROVIDED,
               feedback |->
                  "Acceptance criteria provided (" \o ToString(Len(acAnalysis.criteria))
                  \o " criteria found). Ensure they are specific and testable."]
    ELSE [score |-> config.SCORING.AC_EMPTY,
          feedback |-> "Acceptance criteria section is present but empty. Please define clear, testable acceptance criteria."]

\* The clarity analysis of the variant: that of the engine, with the regex
\* match passed on for the later functions.
clarityResultMd(formatMatch, format, clarity, criteria) ==
    [total |-> format.score + clarity.score + criteria.score,
     formatCheck |-> format,
     clarityAmbiguity |-> clarity,
     acceptanceCriteria |-> criteria,
     formatMatch |-> formatMatch]

clarityWithMd(s, acceptanceCriteriaText, acCall) ==
    IF acCall.threw THEN acCall
    ELSE Returned(clarityResultMd(match(s),
                                  formatCheck(match(s)),
                                  clarityAmbiguity(s),
                                  acceptanceCriteriaCheckMd(acceptanceCriteriaText, acCall.value)))

analyzeClarityAndRequirementMd(s, acceptanceCriteriaText) ==
    clarityWithMd(s, acceptanceCriteriaText, analyzeAcceptanceCriteria(acceptanceCriteriaText))

independentMd(s) ==
    IF hasDependencyKeywords(s)
    THEN [score |-> config.SCORING.INVEST_DEFAULT_LOW,
          justification |-> "Story may have dependencies based on keywords ('after', 'dependent on', etc.). Clarify if it can be worked on without external blockers."]
    ELSE [score |-> config.SCORING.INVEST_DEFAULT_MEDIUM,
          justification |-> "Assumed to be developable independently. It's good practice to review for hidden dependencies with the team."]

negotiableMd(s) ==
    IF hasTechnicalTerms(s)
    THEN [score |-> config.SCORING.INVEST_DEFAULT_LOW,
          justification |-> "Story might be too prescriptive with technical details (e.g., 'database', 'api endpoint'). It's better to focus on user needs and let the team decide on the 'how'."]
    ELSE [score |-> config.SCORING.INVEST_DEFAULT_HIGH,
          justification |-> "Story seems to describe 'what' not 'how', which is great. This allows for discussion on the best implementation."]

valuableMd(formatMatch) ==
    IF hasClearValue(formatMatch)
    THEN [score |-> 10,
          justification |-> "Value proposition seems clear: '" \o Text(formatMatch.groups[3]) \o "'."]
    ELSE [score |-> config.SCORING.INVEST_DEFAULT_LOW,
          justification |-> "The 'so that [value]' part of the story is missing or unclear. It's crucial to state the benefit to the user or business to justify the work."]

estimableMd(s, criteria) ==
    IF isEstimable(s, criteria)
    THEN [score |-> config.SCORING.INVEST_DEFAULT_HIGH,
          justification |-> "With a clear goal and acceptance criteria, the team should be able to estimate this story."]
    ELSE [score |-> config.SCORING.INVEST_DEFAULT_MEDIUM,
          justification |-> "The story or its acceptance criteria may be too vague or missing, which makes estimation difficult. Providing more detail will help."]

smallMd(s, criteria) ==
    IF isLarge(s, criteria)
    THEN [score |-> config.SCORING.INVEST_DEFAULT_LOW,
          justification |-> "The story or its number of acceptance criteria seems large. This might be an 'epic' that should be broken down into smaller, valuable pieces to fit within a sprint."]
    ELSE [score |-> config.SCORING.INVEST_DEFAULT_HIGH,
          justification |-> "Story appears to be a reasonable size and should be completable within a single sprint."]

testableMd(acAnalysis) ==
    IF Len(acAnalysis.criteria) > 0
    THEN [score |-> IF acAnalysis.testableKeywordsFound THEN config.SCORING.INVEST_DEFAULT_HIGH
                    ELSE config.SCORING.INVEST_DEFAULT_MEDIUM,
          justification |->
            "Acceptance criteria are provided. To be highly testable, they should be unambiguous and allow for clear pass/fail conditions."
            \o (IF acAnalysis.nonTestableCount > 0
                THEN " " \o ToString(acAnalysis.nonTestableCount)
                     \o " AC(s) could be clearer; using 'Verify that...' or 'Given/When/Then' helps."
                ELSE "")]
    ELSE [score |-> config.SCORING.INVEST_DEFAULT_LOW,
          justification |-> "Testability cannot be assessed without clear acceptance criteria. A story isn't 'done' if it can't be tested."]

\* An object is the list of its properties in insertion order, as
\* Object.entries enumerates them.
entry(key, value) == [key |-> key, value |-> value]

\* { total, independent, negotiable, valuable, estimable, small, testable }
investResultMd(ind, neg, val, est, sml, tst) ==
    <<entry(<<"t","o","t","a","l">>,
            JsNumber(ind.score + neg.score + val.score + est.score + sml.score + tst.score)),
      entry(<<"i","n","d","e","p","e","n","d","e","n","t">>, ind),
      entry(<<"n","e","g","o","t","i","a","b","l","e">>, neg),
      entry(<<"v","a","l","u","a","b","l","e">>, val),
      entry(<<"e","s","t","i","m","a","b","l","e">>, est),
      entry(<<"s","m","a","l","l">>, sml),
      entry(<<"t","e","s","t","a","b","l","e">>, tst)>>

investWithMd(s, clarityAnalysis, acCall) ==
    IF acCall.threw THEN acCall
    ELSE Returned(investResultMd(independentMd(s),
                                 negotiableMd(s),
                                 valuableMd(clarityAnalysis.formatMatch),
                                 estimableMd(s, acCall.value.criteria),
                                 smallMd(s, acCall.value.criteria),
                                 testableMd(acCall.value)))

analyzeINVESTMd(s, clarityAnalysis, acceptanceCriteriaText) ==
    investWithMd(s, clarityAnalysis, analyzeAcceptanceCriteria(acceptanceCriteriaText))

\* Reading a property of an object kept as a list of entries.
entryOf(object, key) == object[CHOOSE k \in 1..Len(object) : object[k].key = key].value

\* { ...object, key: value }: the key keeps its place if present, else comes last.
spreadWith(object, key, value) ==
    IF \E k \in 1..Len(object) : object[k].key = key
    THEN [k \in 1..Len(object) |-> IF object[k].key = key THEN entry(key, value) ELSE object[k]]
    ELSE Append(object, entry(key, value))

\* The queries and recommendations of generateAnalysisObject.
queriesMd(clarityAnalysis, investAnalysis) ==
    pushed(<<clarityAnalysis.acceptanceCriteria.score = config.SCORING.AC_MISSING,
             entryOf(investAnalysis, <<"v","a","l","u","a","b","l","e">>).score < 10,
             entryOf(investAnalysis, <<"s","m","a","l","l">>).score < config.SCORING.INVEST_DEFAULT_HIGH>>,
           <<"The acceptance criteria are missing. Could you define the specific conditions that must be met for this story to be considered complete?",
             "What is the specific value or benefit this story delivers to the persona or the business? A clear value statement helps prioritize the work.",
             "This story seems large. Is it possible to split it into smaller pieces that can be completed in a single sprint?">>)

improvementsMd(clarityAnalysis, investAnalysis) ==
    pushed(<<clarityAnalysis.formatCheck.score < config.SCORING.FORMAT_SUCCESS,
             /\ entryOf(investAnalysis, <<"t","e","s","t","a","b","l","e">>).score < config.SCORING.INVEST_DEFAULT_HIGH
             /\ clarityAnalysis.acceptanceCriteria.score > 0>>,
           <<"Rephrase the story to fit the standard format: \"As a [persona], I want [goal], so that [value]\". This structure ensures all key components are present.",
             "Some acceptance criteria could be more specific. Using formats like 'Given/When/Then' or 'Verify that...' can make them easier to test.">>)

inferredMd(clarityAnalysis) ==
    IF clarityAnalysis.acceptanceCriteria.score = config.SCORING.AC_MISSING
    THEN inferAcceptanceCriteria(clarityAnalysis.formatMatch)
    ELSE <<>>

decompositionMd(clarityAnalysis, investAnalysis) ==
    IF entryOf(investAnalysis, <<"s","m","a","l","l">>).score < config.SCORING.INVEST_DEFAULT_HIGH
    THEN suggestDecomposition(clarityAnalysis.formatMatch)
    ELSE <<>>

\* The analysis object; reading .label of an undefined category throws.
analysisObject(clarityAnalysis, investAnalysis, percentage, categoryInfo) ==
    IF ~categoryInfo.found
    THEN Thrown("Cannot read properties of undefined (reading 'label')")
    ELSE Returned(
           [overallReadinessScore |->
               [readinessRating |-> percentage,
                readinessCategory |-> categoryInfo.label,
                summary |-> categoryInfo.summary],
            clarityAndRequirementAnalysis |->
               [total |-> clarityAnalysis.total,
                formatCheck |-> clarityAnalysis.formatCheck,
                clarityAmbiguity |-> clarityAnalysis.clarityAmbiguity,
                acceptanceCriteria |-> clarityAnalysis.acceptanceCriteria,
                formatMatch |-> clarityAnalysis.formatMatch,
                totalScore |-> clarityAnalysis.total],
            investCriteriaAssessment |->
               spreadWith(investAnalysis, <<"t","o","t","a","l","S","c","o","r","e">>,
                          entryOf(investAnalysis, <<"t","o","t","a","l">>)),
            outstandingQueriesAndConflicts |-> queriesMd(clarityAnalysis, investAnalysis),
            actionableRecommendations |->
               [suggestedImprovements |-> improvementsMd(clarityAnalysis, investAnalysis),
                inferredAcceptanceCriteria |-> inferredMd(clarityAnalysis),
                storyDecomposition |-> decompositionMd(clarityAnalysis, investAnalysis)]])

ratedMd(clarityAnalysis, investAnalysis, percentage) ==
    analysisObject(clarityAnalysis, investAnalysis, percentage, getReadinessCategory(percentage))

scoredMd(clarityCall, investCall) ==
    IF clarityCall.threw THEN clarityCall
    ELSE IF investCall.threw THEN investCall
    ELSE ratedMd(clarityCall.value, investCall.value,
                 roundPercent(clarityCall.value.total
                                + entryOf(investCall.value, <<"t","o","t","a","l">>).num,
                              40 + 60))

investAfter(s, clarityCall, acceptanceCriteriaText) ==
    IF clarityCall.threw THEN clarityCall
    ELSE analyzeINVESTMd(s, clarityCall.value, acceptanceCriteriaText)

generateAnalysisObjectFrom(s, clarityCall, acceptanceCriteriaText) ==
    scoredMd(clarityCall, investAfter(s, clarityCall, acceptanceCriteriaText))

generateAnalysisObject(s, acceptanceCriteriaText) ==
    generateAnalysisObjectFrom(s, analyzeClarityAndRequirementMd(s, acceptanceCriteriaText),
                               acceptanceCriteriaText)

\* value.score >= 8 ? 'Meets' : value.score >= 5 ? 'Partially Meets' : 'Does Not Meet'
\* (the marks before the words left out); a value without a score property
\* gives undefined, which no comparison accepts.
hasScore(value) == "score" \in DOMAIN value
status(value) ==
    IF hasScore(value) /\ value.score >= 8 THEN "Meets"
    ELSE IF hasScore(value) /\ value.score >= 5 THEN "Partially Meets"
    ELSE "Does Not Meet"

\* ${value.justification}: the text "undefined" when there is no such property.
justificationText(value) ==
    IF "justification" \in DOMAIN value THEN value.justification ELSE "undefined"

\* key.charAt(0).toUpperCase() + key.slice(1)
capitalised(key) ==
    IF key = <<>> THEN <<>> ELSE <<UpperChar(key[1])>> \o SubSeq(key, 2, Len(key))

\* The entries other than 'totalScore'.
RECURSIVE withoutTotalScore(_)
withoutTotalScore(entries) ==
    IF entries = <<>> THEN <<>>
    ELSE IF Head(entries).key # <<"t","o","t","a","l","S","c","o","r","e">>
    THEN <<Head(entries)>> \o withoutTotalScore(Tail(entries))
    ELSE withoutTotalScore(Tail(entries))

\* One bullet of the INVEST section, and its two lines of Markdown.
bullet(e) ==
    [name |-> Text(capitalised(e.key)),
     status |-> status(e.value),
     justification |-> justificationText(e.value),
     defined |-> "justification" \in DOMAIN e.value]

bulletText(b) ==
    "* **" \o b.name \o ":** " \o b.status \o "\n    * *Justification:* " \o b.justification

investBullets(invest) ==
    [k \in 1..Len(withoutTotalScore(invest)) |-> bullet(withoutTotalScore(invest)[k])]

investReport(bullets) == join([k \in 1..Len(bullets) |-> bulletText(bullets[k])], "\n")

\* items.map(i => prefix + i + suffix).join('\n'); where the source wraps an
\* item in backquotes the model writes apostrophes.
listed(items, prefix, suffix) ==
    join([k \in 1..Len(items) |-> prefix \o items[k] \o suffix], "\n")

queriesText(queries) ==
    IF Len(queries) > 0 THEN listed(queries, "* ", "")
    ELSE "* No major queries or conflicts identified. Great job!*"

improvementsText(improvements) ==
    IF Len(improvements) > 0 THEN listed(improvements, "* ", "")
    ELSE "* The story is in good shape. No major improvements suggested.*"

inferredText(inferred) ==
    IF Len(inferred) > 0
    THEN "\n**Inferred Acceptance Criteria (for confirmation):**\n*As a starting point, here are some potential acceptance criteria. Please review and refine them:*\n"
         \o listed(inferred, "* '", "'") \o "\n"
    ELSE ""

\* What follows the improvements once report.trim() has cut the white space
\* at the end: the two optional blocks, the last without its final line break.
trimmedTail(inferred, stories) ==
    IF Len(stories) > 0
    THEN "\n\n" \o inferredText(inferred) \o "\n\n"
         \o "\n**Story Decomposition Suggestions:**\n*This story seems a bit large. Consider splitting it into smaller, valuable stories like these:*\n"
         \o listed(stories, "* '", "'")
    ELSE IF Len(inferred) > 0
    THEN "\n\n"
         \o "\n**Inferred Acceptance Criteria (for confirmation):**\n*As a starting point, here are some potential acceptance criteria. Please review and refine them:*\n"
         \o listed(inferred, "* '", "'")
    ELSE ""

\* The report template, trimmed, around a given INVEST section.
reportText(analysis, investText) ==
    "### **Overall Readiness Score: " \o ToString(analysis.overallReadinessScore.readinessRating)
    \o "/100**\n**" \o analysis.overallReadinessScore.readinessCategory
    \o "**\n*" \o analysis.overallReadinessScore.summary
    \o "*\n---\n### 1. Clarity and Requirement Analysis\n* **Format Check:** "
    \o analysis.clarityAndRequirementAnalysis.formatCheck.feedback
    \o "\n* **Clarity & Ambiguity:** "
    \o analysis.clarityAndRequirementAnalysis.clarityAmbiguity.feedback
    \o "\n* **Acceptance Criteria:** "
    \o analysis.clarityAndRequirementAnalysis.acceptanceCriteria.feedback
    \o "\n\n### 2. INVEST Criteria Assessment\n" \o investText
    \o "\n\n### 3. Outstanding Queries & Conflicts\n"
    \o queriesText(analysis.outstandingQueriesAndConflicts)
    \o "\n\n### 4. Actionable Recommendations\n**Suggested Improvements:**\n"
    \o improvementsText(analysis.actionableRecommendations.suggestedImprovements)
    \o trimmedTail(analysis.actionableRecommendations.inferredAcceptanceCriteria,
                   analysis.actionableRecommendations.storyDecomposition)

formatAnalysisAsMarkdown(analysis) ==
    reportText(analysis, investReport(investBullets(analysis.investCriteriaAssessment)))

\* The text returned for a missing story (the mark in its heading left out).
analysisHalted ==
    "\n### Analysis Halted\n**It looks like the user story is missing.**\nPlease provide the story you'd like me to analyze. A great story usually looks like this:\n*\"As a [type of user], I want [to perform some action], so that [I can achieve some goal].\"*\n"

formatted(analysisCall) ==
    IF analysisCall.threw THEN analysisCall
    ELSE Returned(formatAnalysisAsMarkdown(analysisCall.value))

\* The exported function of the variant.
analyzeUserStoryMd(storyArg, acArg) ==
    IF storyMissing(storyArg) THEN Returned(analysisHalted)
    ELSE formatted(generateAnalysisObject(storyArg.str, acOrDefault(acArg)))

\* What a call leaves beside its result: the analysis object it formatted and
\* the bullets of its INVEST section, when it got that far.
Formatted(storyArg, analysisCall) ==
    IF storyMissing(storyArg) \/ analysisCall.threw THEN [called |-> TRUE, formatted |-> FALSE]
    ELSE [called |-> TRUE, formatted |-> TRUE,
          analysis |-> analysisCall.value,
          bullets |-> investBullets(analysisCall.value.investCriteriaAssessment)]

\* One more story for the variant: a goal that says "manage".
ManageStory ==
    <<"A","s"," ","a","n"," ","a","d","m","i","n",","," ","I"," ","w","a","n","t"," ","t","o"," ","m","a","n","a","g","e"," ","u","s","e","r","s",","," ","s","o"," ","t","h","a","t"," ","a","c","c","e","s","s"," ","s","t","a","y","s"," ","c","o","r","r","e","c","t">>

MdStoryArgs == StoryArgs \cup {JsString(ManageStory)}

\* One call of the variant on arguments drawn at the start.
InitMarkdown ==
    /\ config = CONFIGMd
    /\ story \in MdStoryArgs
    /\ ac \in AcArgs
    /\ result = NoCall
    /\ calls = NoCalls
    /\ lookup = NoCall
    /\ event = NoEvent
    /\ response = NoCall
    /\ app = NoApp

AnalyzeUserStoryMd ==
    /\ ~result.called
    /\ result' = Outcome(analyzeUserStoryMd(story, ac))
    /\ lookup' = Formatted(story, IF storyMissing(story) THEN Thrown("")
                                  ELSE generateAnalysisObject(story.str, acOrDefault(ac)))
    /\ config' = configAfterCall
    /\ UNCHANGED <<story, ac, calls, event, response, app>>

NextMarkdown == AnalyzeUserStoryMd

SpecMarkdown == InitMarkdown /\ [][NextMarkdown]_vars

------------------------------------------------------------------------------
(* The React form (frontend/src/App.js)                                    *)

\* A state value that is null, or one that is set.
Null == [isNull |-> TRUE]
Some(v) == [isNull |-> FALSE, value |-> v]

\* JSON.stringify of a string: quotes around it, and the quote, the backslash
\* and the control characters of the model's alphabet escaped.
escapedChar(c) ==
    IF c = "\"" THEN <<"\\", "\"">>
    ELSE IF c = "\\" THEN <<"\\", "\\">>
    ELSE IF c = "\n" THEN <<"\\", "n">>
    ELSE IF c = "\r" THEN <<"\\", "r">>
    ELSE IF c = "\t" THEN <<"\\", "t">>
    ELSE <<c>>

RECURSIVE escaped(_)
escaped(s) == IF s = <<>> THEN <<>> ELSE escapedChar(Head(s)) \o escaped(Tail(s))

quoted(s) == <<"\"">> \o escaped(s) \o <<"\"">>

\* JSON.stringify({ story, acceptanceCriteria })
requestBody(storyText, acceptanceCriteria) ==
    <<"{","\"","s","t","o","r","y","\"",":">> \o quoted(storyText)
    \o <<",","\"","a","c","c","e","p","t","a","n","c","e","C","r","i","t","e","r","i","a","\"",":">> \o quoted(acceptanceCriteria)
    \o <<"}">>

\* What fetch resolves to: the status, response.ok, and what response.json()
\* will settle to (the value of the body, or a SyntaxError).
fetched(code, json) == [ok |-> code \in 200..299, status |-> code, json |-> json]

\* The response of the analyze-story function to a POST of the request body.
functionResponse(request) ==
    fetched(handler([httpMethod |-> "POST", body |-> JsString(request)]).statusCode,
            Returned(handler([httpMethod |-> "POST", body |-> JsString(request)]).body))

\* Responses that do not come from the function: an error page of a gateway,
\* a page served with status 200, a JSON error without an error property, and
\* the JSON text null with an error status.
OtherResponses ==
    {fetched(502, Thrown("Unexpected token '<', \"<html>\" is not valid JSON")),
     fetched(200, Thrown("Unexpected token '<', \"<!DOCTYPE \"... is not valid JSON")),
     fetched(404, Returned([message |-> "Not Found"])),
     fetched(500, Returned(JsNull))}

\* errData.error || `HTTP error! status: ${response.status}`; reading a
\* property of null throws a TypeError.
thrownFor(errData, code) ==
    IF errData = JsNull THEN "Cannot read properties of null (reading 'error')"
    ELSE IF "error" \in DOMAIN errData /\ errData.error # "" THEN errData.error
    ELSE "HTTP error! status: " \o ToString(code)

\* The form after the first render: the useState initial values, nothing in
\* progress.
mountedApp ==
    [mounted |-> TRUE,
     story |-> <<>>,
     acceptanceCriteria |-> <<>>,
     analysisResult |-> Null,
     isLoading |-> FALSE,
     error |-> Null,
     awaiting |-> "nothing",
     request |-> <<>>,
     response |-> Null]

\* catch (err) { setError(err.message) } finally { setIsLoading(false) }
caught(a, message) ==
    [a EXCEPT !.error = Some(message), !.isLoading = FALSE,
              !.awaiting = "nothing", !.request = <<>>, !.response = Null]

\* setAnalysisResult(data), then the finally block.
succeeded(a, data) ==
    [a EXCEPT !.analysisResult = Some(data), !.isLoading = FALSE,
              !.awaiting = "nothing", !.request = <<>>, !.response = Null]

\* caught without the finally block: isLoading stays as it is.
settledKeepingLoading(a, resp) ==
    IF ~resp.ok
    THEN [a EXCEPT !.error = Some(IF resp.json.threw THEN resp.json.error
                                  ELSE thrownFor(resp.json.value, resp.status)),
                   !.awaiting = "nothing", !.request = <<>>, !.response = Null]
    ELSE IF resp.json.threw
    THEN [a EXCEPT !.error = Some(resp.json.error),
                   !.awaiting = "nothing", !.request = <<>>, !.response = Null]
    ELSE succeeded(a, resp.json.value)

\* The rest of handleSubmit once response.json() has settled.
settled(a, resp) ==
    IF ~resp.ok
    THEN IF resp.json.threw THEN caught(a, resp.json.error)
         ELSE caught(a, thrownFor(resp.json.value, resp.status))
    ELSE IF resp.json.threw THEN caught(a, resp.json.error)
    ELSE succeeded(a, resp.json.value)

\* What the user may type into the two text areas.
FormStories ==
    {<<>>,
     <<"A","s"," ","a"," ","u","s","e","r",","," ","I"," ","w","a","n","t"," ","x",","," ","s","o"," ","t","h","a","t"," ","a","b","c","d","e","f">>,
     <<"S","a","y"," ","\"","h","i","\"","\n","n","o","w"," ","\\"," ","t","h","e","n">>}

FormCriteria ==
    {<<>>,
     <<"G","i","v","e","n"," ","X","\n","T","h","e","n"," ","Y">>}

InitForm ==
    /\ config = CONFIG
    /\ story = JsUndefined
    /\ ac = JsUndefined
    /\ result = NoCall
    /\ calls = NoCalls
    /\ lookup = NoCall
    /\ event = NoEvent
    /\ response = NoCall
    /\ app = mountedApp

\* onChange of the story text area.
SetStory(text) ==
    /\ app' = [app EXCEPT !.story = text]
    /\ UNCHANGED <<config, story, ac, result, calls, lookup, event, response>>

\* onChange of the acceptance-criteria text area.
SetAcceptanceCriteria(text) ==
    /\ app' = [app EXCEPT !.acceptanceCriteria = text]
    /\ UNCHANGED <<config, story, ac, result, calls, lookup, event, response>>

\* handleSubmit up to the await of fetch.  The submit button is disabled
\* while isLoading, and the required story text area must not be empty.
HandleSubmit ==
    /\ ~app.isLoading
    /\ app.story # <<>>
    /\ app' = [app EXCEPT !.isLoading = TRUE, !.error = Null, !.analysisResult = Null,
                          !.awaiting = "fetch",
                          !.request = requestBody(app.story, app.acceptanceCriteria)]
    /\ UNCHANGED <<config, story, ac, result, calls, lookup, event, response>>

\* fetch rejects: the request did not reach the server.
FetchRejects ==
    /\ app.awaiting = "fetch"
    /\ app' = caught(app, "Failed to fetch")
    /\ UNCHANGED <<config, story, ac, result, calls, lookup, event, response>>

\* fetch resolves; handleSubmit goes on to await response.json().
FetchResolves ==
    /\ app.awaiting = "fetch"
    /\ \E resp \in {functionResponse(app.request)} \cup OtherResponses :
          app' = [app EXCEPT !.awaiting = "json", !.response = Some(resp)]
    /\ UNCHANGED <<config, story, ac, result, calls, lookup, event, response>>

\* response.json() settles; handleSubmit runs to its end.
JsonSettles ==
    /\ app.awaiting = "json"
    /\ app' = settled(app, app.response.value)
    /\ UNCHANGED <<config, story, ac, result, calls, lookup, event, response>>

NextForm ==
    \/ \E text \in FormStories : SetStory(text)
    \/ \E text \in FormCriteria : SetAcceptanceCriteria(text)
    \/ HandleSubmit
    \/ FetchRejects
    \/ FetchResolves
    \/ JsonSettles

SpecForm == InitForm /\ [][NextForm]_vars

\* The promises settle: a fetch under way resolves or rejects, and the body
\* of a response is read to its end or to an error.
FairForm ==
    /\ WF_vars(FetchRejects \/ FetchResolves)
    /\ WF_vars(JsonSettles)

SpecFormFair == SpecForm /\ FairForm

-----------------------------------------------------------------------------
(* Properties                                                              *)

\* The story argument is a string with a character that is not white space.
NonBlankStory ==
    story.type = "string" /\ \E i \in 1..Len(story.str) : story.str[i] \notin WhiteSpace

\* The acceptance-criteria argument is a text.
TextAc == ac.type = "string"

\* The call has been made and has returned a Report.
Returns == result.called /\ ~result.threw

\* A Report of the scoring path: a non-blank story was analysed.
Scored == Returns /\ NonBlankStory

\* C1: for a non-blank story and any acceptance-criteria text, readinessRating
\* is the clarity total plus the INVEST total, lies in 0..100, and the score
\* breakdown repeats the two section totals.
C1_RatingIsSumOfTotals ==
    (result.called /\ NonBlankStory /\ TextAc) =>
        /\ ~result.threw
        /\ result.report.overallReadinessScore.readinessRating
              = result.report.clarityAndRequirementAnalysis.totalScore
                + result.report.investCriteriaAssessment.totalScore
        /\ result.report.overallReadinessScore.readinessRating \in 0..100
        /\ result.report.overallReadinessScore.scoreBreakdown.clarityRequirementAnalysis
              = result.report.clarityAndRequirementAnalysis.totalScore
        /\ result.report.overallReadinessScore.scoreBreakdown.investCriteriaAssessment
              = result.report.investCriteriaAssessment.totalScore

\* A story with criteria has been rated 71 or more.
C1_Witness ==
    /\ Scored /\ TextAc /\ ac.str # <<>>
    /\ result.report.overallReadinessScore.readinessRating >= 71

\* C2: for a non-blank story and any acceptance-criteria text, the clarity
\* total is format + clarity + AC and lies in 12..40, with format <= 10,
\* clarity <= 15 and 0 <= AC <= 15.
C2_ClarityTotal ==
    (result.called /\ NonBlankStory /\ TextAc) =>
        /\ ~result.threw
        /\ LET c == result.report.clarityAndRequirementAnalysis
           IN  /\ c.totalScore = c.formatCheck.score + c.clarityAmbiguity.score
                                 + c.acceptanceCriteria.score
               /\ c.totalScore \in 12..40
               /\ c.formatCheck.score <= 10
               /\ c.clarityAmbiguity.score <= 15
               /\ c.acceptanceCriteria.score \in 0..15

\* A long, unambiguous story with criteria: every clause of the clarity score is at its top.
C2_Witness ==
    /\ Scored /\ TextAc
    /\ Len(story.str) >= 25
    /\ result.report.clarityAndRequirementAnalysis.totalScore = 40

\* C3: for a non-blank story and any acceptance-criteria text, the INVEST
\* total is the sum of the six sub-scores, each at most 10, and lies in 18..60.
C3_InvestTotal ==
    (result.called /\ NonBlankStory /\ TextAc) =>
        /\ ~result.threw
        /\ LET v == result.report.investCriteriaAssessment
           IN  /\ v.totalScore = v.independent.score + v.negotiable.score + v.valuable.score
                                 + v.estimable.score + v.small.score + v.testable.score
               /\ \A k \in {"independent", "negotiable", "valuable", "estimable", "small", "testable"} :
                     v[k].score <= 10
               /\ v.totalScore \in 18..60

\* The lowest INVEST total the scorers can give: 3 + 3 + 3 + 6 + 3 + 3.
C3_Witness ==
    /\ Scored /\ TextAc
    /\ result.report.investCriteriaAssessment.totalScore = 21

\* The Report generateEmptyReport builds, as the claim describes it.
IsEmptyReport(r) ==
    /\ r.overallReadinessScore.readinessRating = 0
    /\ r.overallReadinessScore.readinessCategory = "Not Ready - Fundamentally Incomplete"
    /\ \A k \in {"formatCheck", "clarityAmbiguity", "acceptanceCriteria"} :
          r.clarityAndRequirementAnalysis[k] = [score |-> 0, feedback |-> "No story provided."]
    /\ \A k \in {"independent", "negotiable", "valuable", "estimable", "small", "testable"} :
          r.investCriteriaAssessment[k] = [score |-> 0, justification |-> "No story provided."]
    /\ r.outstandingQueriesAndConflicts = <<"What is the user story you would like to analyze?">>
    /\ r.actionableRecommendations.storyDecomposition = <<>>

\* C4: when the story is absent, not a string, empty or blank, the call
\* returns the fixed empty report, whatever the acceptance-criteria argument.
C4_EmptyStoryGivesEmptyReport ==
    (result.called /\ ~NonBlankStory) => (~result.threw /\ IsEmptyReport(result.report))

\* A blank story analysed with an acceptance-criteria argument that is no text.
C4_Witness ==
    /\ Returns
    /\ story.type = "string" /\ story.str # <<>> /\ ~NonBlankStory
    /\ ac.type = "object"

\* C5: for a story text and an acceptance-criteria text the call never
\* throws, and a non-blank story gets a scored Report, not the error report.
C5_NeverThrowsOnText ==
    (result.called /\ story.type = "string" /\ TextAc) =>
        /\ ~result.threw
        /\ NonBlankStory =>
              /\ "error" \notin DOMAIN result.report
              /\ result.report.overallReadinessScore.readinessRating > 0

\* A one-character story with empty acceptance criteria has been scored.
C5_Witness ==
    /\ Scored
    /\ Len(story.str) = 1
    /\ TextAc /\ ac.str = <<>>
    /\ result.report.overallReadinessScore.readinessRating > 0

\* The fields of the Report shape.
HasReportShape(r) ==
    /\ {"overallReadinessScore", "clarityAndRequirementAnalysis", "investCriteriaAssessment",
        "outstandingQueriesAndConflicts", "actionableRecommendations"} \subseteq DOMAIN r
    /\ {"readinessRating", "readinessCategory", "summary", "scoreBreakdown"}
          \subseteq DOMAIN r.overallReadinessScore
    /\ {"formatCheck", "clarityAmbiguity", "acceptanceCriteria", "totalScore"}
          \subseteq DOMAIN r.clarityAndRequirementAnalysis
    /\ {"independent", "negotiable", "valuable", "estimable", "small", "testable", "totalScore"}
          \subseteq DOMAIN r.investCriteriaAssessment
    /\ {"suggestedImprovements", "storyDecomposition"} \subseteq DOMAIN r.actionableRecommendations

\* C6: every Report returned, on the scoring path and on the empty-input path
\* alike, carries all fields of the Report shape, totalScore of both sections included.
C6_EveryReportHasAllFields == Returns => HasReportShape(result.report)

\* The calls of tasks t and u have both ended and were given the same two arguments.
SameArguments(t, u) ==
    /\ calls[t].pc = "returned" /\ calls[u].pc = "returned"
    /\ calls[t].story = calls[u].story
    /\ calls[t].ac = calls[u].ac

TemplateAsA == <<"A","s"," ","a">>
TemplateIWant == <<","," ","I"," ","w","a","n","t"," ">>
TemplateSoThat == <<","," ","s","o"," ","t","h","a","t"," ">>

\* lit occurs in s at position p, letters compared without case.
OccursAt(s, p, lit) ==
    /\ p + Len(lit) - 1 <= Len(s)
    /\ \A j \in 1..Len(lit) : LowerChar(s[p + j - 1]) = LowerChar(lit[j])

\* Some part of s reads "As a" or "As an", a space, a persona, ", I want ", a
\* goal, ", so that ", persona and goal holding no line break.
MatchesTemplate(s) ==
    \E i \in 1..Len(s) :
        /\ OccursAt(s, i, TemplateAsA)
        /\ \E g \in {i + Len(TemplateAsA) + 1, i + Len(TemplateAsA) + 2} :
              /\ g - 1 <= Len(s)
              /\ s[g - 1] = " "
              /\ g = i + Len(TemplateAsA) + 2 => LowerChar(s[g - 2]) = "n"
              /\ \E p1 \in g..Len(s) :
                    /\ OccursAt(s, p1, TemplateIWant)
                    /\ \E p2 \in (p1 + Len(TemplateIWant))..Len(s) :
                          /\ OccursAt(s, p2, TemplateSoThat)
                          /\ \A k \in g..(p2 - 1) : s[k] \notin {"\n", "\r"}

\* C8: the format sub-score is 10 exactly when the story matches the
\* template, letters compared without case, and 2 for every other non-blank story.
C8_FormatScore ==
    Scored =>
        result.report.clarityAndRequirementAnalysis.formatCheck.score
          = IF MatchesTemplate(story.str) THEN 10 ELSE 2

\* A story that writes the template in capitals has scored 10.
C8_Witness ==
    /\ Scored
    /\ Len(story.str) >= 5
    /\ SubSeq(story.str, 1, 5) = <<"A","S"," ","A","N">>
    /\ result.report.clarityAndRequirementAnalysis.formatCheck.score = 10

\* The acceptance-criteria text holds only white space.
AllWhiteSpace(text) == \A i \in 1..Len(text) : text[i] \in WhiteSpace

\* C9: the acceptance-criteria sub-score is 0 when the text is absent or
\* empty, 5 when it is present with no non-blank line, otherwise 15 or 10;
\* no other value occurs.
C9_AcScore ==
    Scored =>
        LET score == result.report.clarityAndRequirementAnalysis.acceptanceCriteria.score
        IN  /\ (ac.type = "undefined" \/ (TextAc /\ ac.str = <<>>)) => score = 0
            /\ (TextAc /\ ac.str # <<>> /\ AllWhiteSpace(ac.str)) => score = 5
            /\ (TextAc /\ ~AllWhiteSpace(ac.str)) => score \in {10, 15}
            /\ score \in {0, 5, 10, 15}

\* Criteria made of blanks and line breaks only have scored 5.
C9_Witness ==
    /\ Scored /\ TextAc
    /\ Len(ac.str) > 1 /\ AllWhiteSpace(ac.str)
    /\ result.report.clarityAndRequirementAnalysis.acceptanceCriteria.score = 5

\* The non-blank lines of a criteria text, and how many hold no testable keyword.
CriteriaLines(text) == nonBlank(split(text))
NonTestableLines(text) ==
    Cardinality({k \in 1..Len(CriteriaLines(text)) : ~isTestable(CriteriaLines(text)[k])})

\* C10: with n >= 1 non-blank lines of which k hold no testable keyword, the
\* sub-score is 10 if k > n/2 and 15 otherwise; three given/when/then lines
\* score 15 and two lines without a keyword score 10.
C10_NonTestableDeduction ==
    (Scored /\ TextAc /\ Len(CriteriaLines(ac.str)) >= 1) =>
        LET score == result.report.clarityAndRequirementAnalysis.acceptanceCriteria.score
        IN  /\ score = IF 2 * NonTestableLines(ac.str) > Len(CriteriaLines(ac.str))
                        THEN 10 ELSE 15
            /\ ac.str = <<"G","i","v","e","n"," ","X","\n","W","h","e","n"," ","Y","\n","T","h","e","n"," ","Z">> => score = 15
            /\ ac.str = <<"I","t"," ","s","h","o","u","l","d"," ","j","u","s","t"," ","w","o","r","k","\n","M","a","k","e"," ","i","t"," ","n","i","c","e">> => score = 10

\* Two criteria, one of them without a testable keyword: no deduction.
C10_Witness ==
    /\ Scored /\ TextAc
    /\ Len(CriteriaLines(ac.str)) = 2
    /\ NonTestableLines(ac.str) = 1
    /\ result.report.clarityAndRequirementAnalysis.acceptanceCriteria.score = 15

\* The band the rating falls in, by the ranges 90.., 71..89, 50..70, 0..49.
BandLabel(rating) ==
    IF rating >= 90 THEN "Excellent - Ready for Development"
    ELSE IF rating >= 71 THEN "At Standard Expected - Minor Refinement Needed"
    ELSE IF rating >= 50 THEN "Requires Improvement - Needs Refinement"
    ELSE "Not Ready - Fundamentally Incomplete"

\* C11: for every rating in 0..100 the lookup finds a band, and it is the
\* first of 90, 71, 50, 0 that the rating meets: Excellent from 90, At Standard
\* Expected for 71..89, Requires Improvement for 50..70, Not Ready for 0..49.
C11_FirstBandMet ==
    (lookup.called /\ lookup.score \in 0..100) =>
        /\ lookup.found
        /\ lookup.label = BandLabel(lookup.score)

\* The lookup on the threshold 90 itself has found Excellent.
C11_Witness ==
    /\ lookup.called
    /\ lookup.score = 90
    /\ lookup.found
    /\ lookup.label = "Excellent - Ready for Development"

\* A match of the template starts at i with its ", so that " at p2.
TemplateFrom(s, i, p2) ==
    /\ OccursAt(s, i, TemplateAsA)
    /\ OccursAt(s, p2, TemplateSoThat)
    /\ \E g \in {i + Len(TemplateAsA) + 1, i + Len(TemplateAsA) + 2} :
          /\ g - 1 <= Len(s)
          /\ s[g - 1] = " "
          /\ g = i + Len(TemplateAsA) + 2 => LowerChar(s[g - 2]) = "n"
          /\ \E p1 \in g..(p2 - Len(TemplateIWant)) : OccursAt(s, p1, TemplateIWant)
          /\ \A k \in g..(p2 - 1) : s[k] \notin {"\n", "\r"}

\* Where the first match of the template starts.
FirstStart(s) ==
    Min({i \in 1..Len(s) :
            OccursAt(s, i, TemplateAsA) /\ \E p2 \in i..Len(s) : TemplateFrom(s, i, p2)})

\* Where the value clause of that match starts: after the last ", so that "
\* the match can use.
ValueStartFrom(s, i) ==
    Max({p2 \in i..Len(s) : TemplateFrom(s, i, p2)}) + Len(TemplateSoThat)
ValueStart(s) == ValueStartFrom(s, FirstStart(s))

\* The value clause: from there to the end of the line.
ValueClauseFrom(s, from, breaks) ==
    SubSeq(s, from, IF breaks = {} THEN Len(s) ELSE Min(breaks) - 1)
ValueClauseAt(s, from) ==
    ValueClauseFrom(s, from, {k \in from..Len(s) : s[k] \in {"\n", "\r"}})
ValueClause(s) == ValueClauseAt(s, ValueStart(s))

\* The length of a text without its leading and trailing white space.
TrimmedLen(t) ==
    LET ink == {k \in 1..Len(t) : t[k] \notin WhiteSpace}
    IN  IF ink = {} THEN 0 ELSE Max(ink) - Min(ink) + 1

\* s contains kw, letters compared without case; s contains none of a list.
ContainsNoCase(s, kw) == \E p \in 1..Len(s) : OccursAt(s, p, kw)
ContainsNone(s, keywords) == \A k \in 1..Len(keywords) : ~ContainsNoCase(s, keywords[k])

\* The story of the password-reset example.
PasswordReset == <<"A","s"," ","a"," ","u","s","e","r",","," ","I"," ","w","a","n","t"," ","t","o"," ","r","e","s","e","t"," ","m","y"," ","p","a","s","s","w","o","r","d",","," ","s","o"," ","t","h","a","t"," ","I"," ","c","a","n"," ","r","e","g","a","i","n"," ","a","c","c","e","s","s"," ","t","o"," ","m","y"," ","a","c","c","o","u","n","t">>

\* The sub-scores of a Report, in the order format, clarity, AC, then I-N-V-E-S-T.
SubScores(r) ==
    <<r.clarityAndRequirementAnalysis.formatCheck.score,
      r.clarityAndRequirementAnalysis.clarityAmbiguity.score,
      r.clarityAndRequirementAnalysis.acceptanceCriteria.score,
      r.investCriteriaAssessment.independent.score,
      r.investCriteriaAssessment.negotiable.score,
      r.investCriteriaAssessment.valuable.score,
      r.investCriteriaAssessment.estimable.score,
      r.investCriteriaAssessment.small.score,
      r.investCriteriaAssessment.testable.score>>

\* C12: a story that matches the template, is longer than 25 and at most 200
\* characters, has a value clause longer than 5 characters and holds no
\* ambiguous, dependency or technical keyword, analysed with empty acceptance
\* criteria, scores 10, 15, 0 and 6, 8, 10, 6, 8, 3: clarity total 25, INVEST
\* total 41, rating 66, category Requires Improvement.
C12_WellFormedStoryWithoutCriteria ==
    (/\ Scored
     /\ ac.type = "undefined" \/ (TextAc /\ ac.str = <<>>)
     /\ MatchesTemplate(story.str)
     /\ Len(story.str) > 25 /\ Len(story.str) <= 200
     /\ TrimmedLen(ValueClause(story.str)) > 5
     /\ ContainsNone(story.str, config.KEYWORDS.AMBIGUOUS)
     /\ ContainsNone(story.str, config.KEYWORDS.DEPENDENCIES)
     /\ ContainsNone(story.str, config.KEYWORDS.TECHNICAL))
    =>
        /\ SubScores(result.report) = <<10, 15, 0, 6, 8, 10, 6, 8, 3>>
        /\ result.report.clarityAndRequirementAnalysis.totalScore = 25
        /\ result.report.investCriteriaAssessment.totalScore = 41
        /\ result.report.overallReadinessScore.readinessRating = 66
        /\ result.report.overallReadinessScore.readinessCategory
              = "Requires Improvement - Needs Refinement"

\* The password-reset story has been analysed with empty criteria and rated 66.
C12_Witness ==
    /\ Scored
    /\ story.str = PasswordReset
    /\ TextAc /\ ac.str = <<>>
    /\ TrimmedLen(ValueClause(story.str)) > 5
    /\ result.report.overallReadinessScore.readinessRating = 66

\* The technical terms the specification names for the configured set.
NamedTechnicalTerms ==
    <<<<"d","a","t","a","b","a","s","e">>,
      <<"a","p","i"," ","e","n","d","p","o","i","n","t">>,
      <<"a","l","g","o","r","i","t","h","m">>,
      <<"s","q","l">>>>

\* C13: the Negotiable sub-score is 3 whenever the story contains, letters
\* compared without case, a technical term of the configured set, which
\* includes "database", "api endpoint", "algorithm" and "sql"; it is 8 when
\* the story contains none of them.
C13_NegotiableByTechnicalTerms ==
    Scored =>
        result.report.investCriteriaAssessment.negotiable.score
          = IF /\ ContainsNone(story.str, NamedTechnicalTerms)
               /\ ContainsNone(story.str, config.KEYWORDS.TECHNICAL)
            THEN 8 ELSE 3

\* The dependency keywords.
DependencyTerms ==
    <<<<"d","e","p","e","n","d","e","n","t"," ","o","n">>,
      <<"a","f","t","e","r">>,
      <<"f","o","l","l","o","w","i","n","g">>,
      <<"o","n","c","e">>>>

\* C14: the Independent sub-score is 3 when the story contains "dependent on",
\* "after", "following" or "once", letters compared without case and also
\* inside a longer word, and 6 otherwise.
C14_IndependentByDependencyTerms ==
    Scored =>
        result.report.investCriteriaAssessment.independent.score
          = IF ContainsNone(story.str, DependencyTerms) THEN 6 ELSE 3

\* "once" inside "concern" has lowered the score to 3.
C14_Witness ==
    /\ Scored
    /\ story.str = <<"T","h","e"," ","c","o","n","c","e","r","n"," ","i","s"," ","s","p","e","e","d">>
    /\ result.report.investCriteriaAssessment.independent.score = 3

\* C15: the Valuable sub-score is 10 exactly when the story matches the
\* template and its value clause, trimmed, is longer than 5 characters;
\* otherwise, a 5-character clause included, it is 3.
C15_ValuableByValueClause ==
    Scored =>
        result.report.investCriteriaAssessment.valuable.score
          = IF MatchesTemplate(story.str) /\ TrimmedLen(ValueClause(story.str)) > 5
            THEN 10 ELSE 3

\* A matching story whose value clause has exactly 5 characters has scored 3.
C15_Witness ==
    /\ Scored
    /\ MatchesTemplate(story.str)
    /\ TrimmedLen(ValueClause(story.str)) = 5
    /\ result.report.investCriteriaAssessment.valuable.score = 3

\* Where the lines of a text start, and whether the line starting at a holds
\* a character that is not white space.
LineStarts(text) == {1} \cup {k + 1 : k \in {j \in 1..Len(text) : text[j] = "\n"}}
LineHasInk(text, a) ==
    \E j \in a..Len(text) :
        /\ text[j] \notin WhiteSpace
        /\ \A i \in a..j : text[i] # "\n"

\* The number of non-blank lines of the acceptance-criteria argument.
NonBlankLineCount ==
    IF TextAc
    THEN Cardinality({a \in LineStarts(ac.str) : LineHasInk(ac.str, a)})
    ELSE 0

\* C16: the Estimable sub-score is 8 exactly when there is a non-blank AC
\* line and the story is longer than 25 characters; otherwise, a story of
\* exactly 25 characters with criteria included, it is 6.
C16_EstimableByCriteriaAndLength ==
    Scored =>
        result.report.investCriteriaAssessment.estimable.score
          = IF NonBlankLineCount >= 1 /\ Len(story.str) > 25 THEN 8 ELSE 6

\* A story of exactly 25 characters with criteria has scored 6.
C16_Witness ==
    /\ Scored
    /\ Len(story.str) = 25
    /\ NonBlankLineCount >= 1
    /\ result.report.investCriteriaAssessment.estimable.score = 6

\* C17: the Small sub-score is 3 exactly when the story is longer than 200
\* characters or there are more than 7 non-blank AC lines, and 8 otherwise:
\* 200 characters and 7 lines are still small, and blank lines do not count.
C17_SmallByLengthAndCriteria ==
    Scored =>
        result.report.investCriteriaAssessment.small.score
          = IF Len(story.str) > 200 \/ NonBlankLineCount > 7 THEN 3 ELSE 8

\* A story of 200 characters with 7 criteria among more than 7 lines has scored 8.
C17_Witness ==
    /\ Scored /\ TextAc
    /\ Len(story.str) = 200
    /\ NonBlankLineCount = 7
    /\ Cardinality(LineStarts(ac.str)) > 7
    /\ result.report.investCriteriaAssessment.small.score = 8

\* The line of a text that starts at a.
LineUpTo(text, a, ends) == SubSeq(text, a, IF ends = {} THEN Len(text) ELSE Min(ends) - 1)
LineOf(text, a) == LineUpTo(text, a, {k \in a..Len(text) : text[k] = "\n"})

\* The number of non-blank AC lines that hold no testable keyword.
NonTestableLineCount ==
    IF TextAc
    THEN Cardinality({a \in LineStarts(ac.str) :
                         /\ LineHasInk(ac.str, a)
                         /\ ContainsNone(LineOf(ac.str, a), config.KEYWORDS.TESTABLE_AC)})
    ELSE 0

\* The justification of Testable when there are criteria, k of them not testable.
TestableNote(k) ==
    "Acceptance criteria provided. Ensure they are unambiguous and allow for clear pass/fail conditions."
    \o (IF k = 0 THEN ""
        ELSE " " \o ToString(k)
             \o " AC(s) may benefit from clearer testable language (e.g., using 'Verify that...').")

\* C18: the Testable sub-score is 3 when there is no non-blank AC line,
\* otherwise 8 if some line holds a testable keyword and 6 if none does; the
\* count of non-testable lines is appended to the justification exactly when
\* it is not zero.
C18_TestableByCriteria ==
    Scored =>
        /\ result.report.investCriteriaAssessment.testable.score
              = IF NonBlankLineCount = 0 THEN 3
                ELSE IF NonTestableLineCount < NonBlankLineCount THEN 8 ELSE 6
        /\ result.report.investCriteriaAssessment.testable.justification
              = IF NonBlankLineCount = 0
                THEN "Testability cannot be assessed without clear acceptance criteria."
                ELSE TestableNote(NonTestableLineCount)

\* Criteria of which some but not all hold a testable keyword: scored 8, count appended.
C18_Witness ==
    /\ Scored
    /\ NonTestableLineCount >= 1
    /\ NonTestableLineCount < NonBlankLineCount
    /\ result.report.investCriteriaAssessment.testable.score = 8
    /\ result.report.investCriteriaAssessment.testable.justification
          = TestableNote(NonTestableLineCount)

\* The two feedback items of the clarity check.
TooShortNote == "Story seems very short, ensure it's sufficiently detailed."
AmbiguousNote == "Avoid ambiguous terms like 'should', 'could', or 'might'. Be specific."

\* The claimed clarity score: min(15, 10 + 5 for length >= 25 + 5 for no ambiguous keyword).
ClarityOf(s) ==
    Min({15, 10 + (IF Len(s) >= 25 THEN 5 ELSE 0)
                + (IF ContainsNone(s, config.KEYWORDS.AMBIGUOUS) THEN 5 ELSE 0)})

\* The claimed feedback: an item for each bonus not earned, in this order.
ClarityNoteOf(s) ==
    IF Len(s) < 25 /\ ~ContainsNone(s, config.KEYWORDS.AMBIGUOUS)
    THEN TooShortNote \o " " \o AmbiguousNote
    ELSE IF Len(s) < 25 THEN TooShortNote
    ELSE IF ~ContainsNone(s, config.KEYWORDS.AMBIGUOUS) THEN AmbiguousNote
    ELSE "Language appears reasonably clear."

\* C19: the clarity sub-score is min(15, 10 + 5 if the story has at least 25
\* characters + 5 if it holds no ambiguous keyword, letters compared without
\* case); the "too short" and "avoid ambiguous terms" items are in the feedback
\* exactly when the bonus in question is not earned.
C19_ClarityScoreAndFeedback ==
    Scored =>
        /\ result.report.clarityAndRequirementAnalysis.clarityAmbiguity.score
              = ClarityOf(story.str)
        /\ result.report.clarityAndRequirementAnalysis.clarityAmbiguity.feedback
              = ClarityNoteOf(story.str)

\* A story of exactly 25 characters with an ambiguous keyword: the length bonus
\* alone is earned, and only the ambiguity item is in the feedback.
C19_Witness ==
    /\ Scored
    /\ Len(story.str) = 25
    /\ ~ContainsNone(story.str, config.KEYWORDS.AMBIGUOUS)
    /\ result.report.clarityAndRequirementAnalysis.clarityAmbiguity.score = 15
    /\ result.report.clarityAndRequirementAnalysis.clarityAmbiguity.feedback = AmbiguousNote

\* C20: on the scoring path storyDecomposition is non-empty exactly when the
\* Small sub-score is below 8, that is when the story is longer than 200
\* characters or has more than 7 AC lines; the empty report has the empty list.
C20_DecompositionOnlyWhenLarge ==
    /\ Scored =>
          /\ (result.report.actionableRecommendations.storyDecomposition # <<>>)
                <=> (result.report.investCriteriaAssessment.small.score < 8)
          /\ (result.report.actionableRecommendations.storyDecomposition # <<>>)
                <=> (Len(story.str) > 200 \/ NonBlankLineCount > 7)
    /\ (Returns /\ ~NonBlankStory) =>
          result.report.actionableRecommendations.storyDecomposition = <<>>

\* A story of at most 200 characters with more than 7 criteria has got a decomposition hint.
C20_Witness ==
    /\ Scored
    /\ Len(story.str) <= 200
    /\ NonBlankLineCount > 7
    /\ Len(result.report.actionableRecommendations.storyDecomposition) = 1

\* C21: a call without the acceptance-criteria argument returns what the call
\* with the empty string returns, for every story; for a non-blank story that
\* is AC score 0 with the "missing" feedback, testable 3 and estimable 6.
C21_OmittedCriteriaAsEmptyString ==
    (result.called /\ ac.type = "undefined") =>
        /\ result = Outcome(analyzeUserStory(story, JsString(<<>>)))
        /\ Scored =>
              /\ result.report.clarityAndRequirementAnalysis.acceptanceCriteria
                    = [score |-> 0,
                       feedback |-> "Acceptance criteria are missing. Clear, testable ACs are essential. Consider using the 'Given/When/Then' format."]
              /\ result.report.investCriteriaAssessment.testable.score = 3
              /\ result.report.investCriteriaAssessment.estimable.score = 6

\* A story longer than 25 characters has been analysed without the second argument.
C21_Witness ==
    /\ Scored
    /\ ac.type = "undefined"
    /\ Len(story.str) > 25
    /\ result.report.clarityAndRequirementAnalysis.acceptanceCriteria.score = 0

\* The request is a POST whose body is the given text.
PostOf(text) == event.httpMethod = "POST" /\ event.body = JsString(text)

\* The request is a POST whose payload has no story: no body at all, a JSON
\* body without the property, with null for it, or the JSON text null.
PostWithoutStory ==
    /\ event.httpMethod = "POST"
    /\ \/ event.body \in AbsentBodies
       \/ \E t \in BodiesWithoutStory \cup {NullBody} : event.body = JsString(t)

\* The response to a payload with a story: the Report with 200, or the
\* engine's error message with 500.
AnswersCall(call) ==
    IF call.threw
    THEN /\ response.statusCode = 500
         /\ response.body.details = call.error
    ELSE /\ response.statusCode = 200
         /\ response.body = call.value

\* C22: the handler answers 405 to every method but POST, whatever the body;
\* 400 to a body that is not JSON and to a payload whose story is absent or
\* null, an empty body included; 200 with the Report when story is present,
\* blank stories included; 500 with the message in details when the engine throws.
C22_HandlerStatus ==
    response.called =>
        /\ event.httpMethod # "POST" => response.statusCode = 405
        /\ (\E t \in InvalidJsonBodies : PostOf(t)) => response.statusCode = 400
        /\ PostWithoutStory => response.statusCode = 400
        /\ \A r \in RequestsWithStory :
              PostOf(r.text) => AnswersCall(analyzeUserStory(r.story, r.acceptanceCriteria))

When(fires, item) == IF fires THEN <<item>> ELSE <<>>

\* The queries of the five rules that fire on a Report's sub-scores, in the
\* order AC, value, size, testability, independence.
QueriesFor(r) ==
    When(r.clarityAndRequirementAnalysis.acceptanceCriteria.score < 15,
         "Could you provide or refine the acceptance criteria to be more specific and testable?")
    \o When(r.investCriteriaAssessment.valuable.score < 10,
            "What is the specific value or benefit this story delivers?")
    \o When(r.investCriteriaAssessment.small.score < 8,
            "Is this story small enough for one sprint? If not, how can it be split?")
    \o When(r.investCriteriaAssessment.testable.score < 8,
            "Are the success conditions clear and testable? How would you verify this story is done?")
    \o When(r.investCriteriaAssessment.independent.score < 6,
            "Are there any hidden dependencies? Can this be developed independently?")

\* The improvements of the same rules, after that of the format rule.
ImprovementsFor(r) ==
    When(r.clarityAndRequirementAnalysis.formatCheck.score < 10,
         "Rephrase story to fit the standard format: \"As a [persona], I want [goal], so that [value]\".")
    \o When(r.clarityAndRequirementAnalysis.acceptanceCriteria.score < 15,
            "Refine ACs: " \o r.clarityAndRequirementAnalysis.acceptanceCriteria.feedback)
    \o When(r.investCriteriaAssessment.valuable.score < 10,
            "Clarify value: " \o r.investCriteriaAssessment.valuable.justification)
    \o When(r.investCriteriaAssessment.small.score < 8,
            "Consider story size: " \o r.investCriteriaAssessment.small.justification)
    \o When(r.investCriteriaAssessment.testable.score < 8,
            "Improve testability: " \o r.investCriteriaAssessment.testable.justification)
    \o When(r.investCriteriaAssessment.independent.score < 6,
            "Clarify independence: " \o r.investCriteriaAssessment.independent.justification)

\* The items one per line, or the note that nothing is to improve.
RECURSIVE OnePerLine(_)
OnePerLine(items) ==
    IF Len(items) = 1 THEN items[1]
    ELSE OnePerLine(SubSeq(items, 1, Len(items) - 1)) \o "\n" \o items[Len(items)]
ImprovementText(items) ==
    IF items = <<>> THEN "Story is in good shape. No major improvements suggested."
    ELSE OnePerLine(items)

\* C24: outstandingQueriesAndConflicts is the list of the queries of the rules
\* AC < 15, valuable < 10, small < 8, testable < 8, independent < 6 that fire,
\* in that order, each once; the improvements are those of the same rules,
\* preceded by the format improvement when format < 10.
C24_RulesInFixedOrder ==
    Scored =>
        /\ result.report.outstandingQueriesAndConflicts = QueriesFor(result.report)
        /\ result.report.actionableRecommendations.suggestedImprovements
              = ImprovementText(ImprovementsFor(result.report))

\* All five query rules and the format rule have fired on one story.
C24_Witness ==
    /\ Scored
    /\ result.report.clarityAndRequirementAnalysis.formatCheck.score < 10
    /\ Len(result.report.outstandingQueriesAndConflicts) = 5
    /\ result.report.outstandingQueriesAndConflicts[5]
          = "Are there any hidden dependencies? Can this be developed independently?"

\* The starts of the non-blank lines of a text, and the i-th of them.
InkedStarts(text) == {a \in LineStarts(text) : LineHasInk(text, a)}
NthOf(starts, i) == CHOOSE a \in starts : Cardinality({b \in starts : b < a}) = i - 1

\* The non-blank lines of a text, in input order.
InkedLinesAt(text, starts) == [i \in 1..Cardinality(starts) |-> LineOf(text, NthOf(starts, i))]
InkedLines(text) == InkedLinesAt(text, InkedStarts(text))

\* The number of the given lines that hold no testable keyword.
WithoutKeyword(lines) ==
    Cardinality({i \in 1..Len(lines) : ContainsNone(lines[i], config.KEYWORDS.TESTABLE_AC)})

\* The AC analysis has returned.
TalliedOk == lookup.called /\ ~lookup.threw

\* C25: analyzeAcceptanceCriteria returns the non-blank lines of the text in
\* input order; nonTestableCount is the number of them with none of the
\* testable keywords, between 0 and criteria.length; testableKeywordsFound
\* holds iff nonTestableCount < criteria.length; absent, empty or
\* all-whitespace input gives [], false, 0.
C25_CriteriaAndTally ==
    /\ (TalliedOk /\ TextAc) =>
          /\ lookup.analysis.criteria = InkedLines(ac.str)
          /\ lookup.analysis.nonTestableCount = WithoutKeyword(InkedLines(ac.str))
          /\ lookup.analysis.nonTestableCount >= 0
          /\ lookup.analysis.nonTestableCount <= Len(lookup.analysis.criteria)
          /\ lookup.analysis.testableKeywordsFound
                <=> (lookup.analysis.nonTestableCount < Len(lookup.analysis.criteria))
    /\ (lookup.called /\ (ac.type = "undefined" \/ (TextAc /\ AllWhiteSpace(ac.str)))) =>
          /\ ~lookup.threw
          /\ lookup.analysis
                = [criteria |-> <<>>, testableKeywordsFound |-> FALSE, nonTestableCount |-> 0]

\* A text with a whitespace-only line between criteria, some with a keyword
\* and some without, has been analysed.
C25_Witness ==
    /\ TalliedOk /\ TextAc
    /\ Cardinality(LineStarts(ac.str)) > Len(lookup.analysis.criteria)
    /\ \E a \in LineStarts(ac.str) : a <= Len(ac.str) /\ ac.str[a] = " " /\ ~LineHasInk(ac.str, a)
    /\ lookup.analysis.nonTestableCount >= 1
    /\ lookup.analysis.testableKeywordsFound

\* C26: every rating is at most 88, the clarity total being at most 40 and the
\* INVEST total at most 48 (Independent at most 6; Negotiable, Estimable,
\* Small and Testable at most 8), so no report is in the Excellent band.
C26_NeverExcellent ==
    Returns =>
        /\ result.report.overallReadinessScore.readinessRating <= 88
        /\ result.report.overallReadinessScore.readinessCategory # "Excellent - Ready for Development"
        /\ Scored =>
              LET i == result.report.investCriteriaAssessment
              IN  /\ result.report.clarityAndRequirementAnalysis.totalScore <= 40
                  /\ i.totalScore <= 48
                  /\ i.independent.score <= 6
                  /\ i.negotiable.score <= 8
                  /\ i.estimable.score <= 8
                  /\ i.small.score <= 8
                  /\ i.testable.score <= 8

\* A story has reached the ceiling: clarity 40, INVEST 48, rating 88.
C26_Witness ==
    /\ Scored
    /\ result.report.overallReadinessScore.readinessRating = 88
    /\ result.report.clarityAndRequirementAnalysis.totalScore = 40
    /\ result.report.investCriteriaAssessment.totalScore = 48
    /\ result.report.overallReadinessScore.readinessCategory
          = "At Standard Expected - Minor Refinement Needed"

\* The story holds one of the words should, could, might, in any case.
SaysShouldCouldMight(s) ==
    \/ ContainsNoCase(s, <<"s","h","o","u","l","d">>)
    \/ ContainsNoCase(s, <<"c","o","u","l","d">>)
    \/ ContainsNoCase(s, <<"m","i","g","h","t">>)

\* C27: the clarity sub-score is 10 or 15; it is 10 exactly when the story is
\* shorter than 25 characters and holds an ambiguous keyword; a story of 25 or
\* more characters with should, could or might scores 15 and its feedback is
\* the warning about ambiguous terms, not "Language appears reasonably clear."
C27_ClarityTenOrFifteen ==
    Scored =>
        LET c == result.report.clarityAndRequirementAnalysis.clarityAmbiguity
        IN  /\ c.score \in {10, 15}
            /\ (c.score = 10)
                  <=> (Len(story.str) < 25 /\ ~ContainsNone(story.str, config.KEYWORDS.AMBIGUOUS))
            /\ (Len(story.str) >= 25 /\ SaysShouldCouldMight(story.str)) =>
                  /\ c.score = 15
                  /\ c.feedback = AmbiguousNote
                  /\ c.feedback # "Language appears reasonably clear."

\* A story longer than 25 characters that says "might" has the full 15 and
\* the warning.
C27_Witness ==
    /\ Scored
    /\ Len(story.str) > 25
    /\ ContainsNoCase(story.str, <<"m","i","g","h","t">>)
    /\ result.report.clarityAndRequirementAnalysis.clarityAmbiguity.score = 15
    /\ result.report.clarityAndRequirementAnalysis.clarityAmbiguity.feedback = AmbiguousNote

\* C28: in every Report for a non-empty story, testable = 3 iff the AC
\* sub-score is 0 or 5; testable = 6 implies an AC sub-score of 10; an AC
\* sub-score of 15 implies testable = 8; estimable = 8 implies testable >= 6.
C28_AcAndTestableCoupled ==
    Scored =>
        LET acScore == result.report.clarityAndRequirementAnalysis.acceptanceCriteria.score
            i == result.report.investCriteriaAssessment
        IN  /\ (i.testable.score = 3) <=> (acScore \in {0, 5})
            /\ (i.testable.score = 6) => (acScore = 10)
            /\ (acScore = 15) => (i.testable.score = 8)
            /\ (i.estimable.score = 8) => (i.testable.score >= 6)

\* Criteria that earn the full AC score although their last line has no
\* keyword: Testable and Estimable are both 8.
C28_Witness ==
    /\ Scored /\ TextAc
    /\ NonTestableLineCount >= 1
    /\ ContainsNone(LineOf(ac.str, NthOf(InkedStarts(ac.str), Cardinality(InkedStarts(ac.str)))),
                    config.KEYWORDS.TESTABLE_AC)
    /\ result.report.clarityAndRequirementAnalysis.acceptanceCriteria.score = 15
    /\ result.report.investCriteriaAssessment.testable.score = 8
    /\ result.report.investCriteriaAssessment.estimable.score = 8

\* The six INVEST criteria, in the order of the report.
InvestCriteria ==
    <<<<"i","n","d","e","p","e","n","d","e","n","t">>,
      <<"n","e","g","o","t","i","a","b","l","e">>,
      <<"v","a","l","u","a","b","l","e">>,
      <<"e","s","t","i","m","a","b","l","e">>,
      <<"s","m","a","l","l">>,
      <<"t","e","s","t","a","b","l","e">>>>
InvestNames == <<"Independent", "Negotiable", "Valuable", "Estimable", "Small", "Testable">>

\* The status claimed for a score.
ClaimedStatus(score) ==
    IF score >= 8 THEN "Meets" ELSE IF score >= 5 THEN "Partially Meets" ELSE "Does Not Meet"

\* The six bullets claimed for an INVEST assessment.
ClaimedBullets(invest) ==
    [k \in 1..6 |->
        [name |-> InvestNames[k],
         status |-> ClaimedStatus(entryOf(invest, InvestCriteria[k]).score),
         justification |-> entryOf(invest, InvestCriteria[k]).justification,
         defined |-> TRUE]]

\* The variant has formatted an analysis object.
FormattedReport == result.called /\ ~result.threw /\ lookup.called /\ lookup.formatted

\* C29: in the Markdown variant the INVEST section of the report holds exactly
\* six bullets, one per criterion in the order I-N-V-E-S-T, each with the
\* status Meets from 8, Partially Meets from 5, Does Not Meet below, and each
\* with a defined justification.
C29_SixInvestBullets ==
    FormattedReport =>
        /\ Len(lookup.bullets) = 6
        /\ \A k \in 1..Len(lookup.bullets) : lookup.bullets[k].defined
        /\ lookup.bullets = ClaimedBullets(lookup.analysis.investCriteriaAssessment)
        /\ result.report
              = reportText(lookup.analysis,
                           investReport(ClaimedBullets(lookup.analysis.investCriteriaAssessment)))

\* A submit is under way: handleSubmit awaits fetch or response.json().
InFlight == app.awaiting # "nothing"

\* C30: in the React form every submit, whatever its outcome, leads to
\* isLoading being false again; while the request is in flight isLoading is
\* true and analysisResult and error are both null; and analysisResult and
\* error are never both non-null.
C30_SubmitAlwaysSettles ==
    /\ [](InFlight => (app.isLoading /\ app.analysisResult = Null /\ app.error = Null))
    /\ [](~(app.analysisResult # Null /\ app.error # Null))
    /\ (InFlight ~> (~InFlight /\ ~app.isLoading))

\* A submit answered with status 404 and a JSON body without an error
\* property has completed: the fallback message is shown, the button is
\* enabled again and no result is set.
C30_Witness ==
    /\ app.mounted
    /\ ~InFlight
    /\ ~app.isLoading
    /\ app.error = Some("HTTP error! status: 404")
    /\ app.analysisResult = Null

=============================================================================
